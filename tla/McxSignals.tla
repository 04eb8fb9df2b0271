----------------------------- MODULE McxSignals -----------------------------
(***************************************************************************)
(* The numbers under which a setting of a signal lives in the database of   *)
(* an MCX console (ldf/models/mcx/mcx.py).  Equalizer bands, aux gains and  *)
(* bus assignments are plain events: the code computes the number of the    *)
(* parameter, once where it sets it and once more where it asks for it.     *)
(***************************************************************************)
EXTENDS Integers

CONSTANTS
  Channels,    \* signals that have settings
  BusWidth,    \* buses of a kind
  FuBase,      \* kind of a bus -> first index of its signals (fu_base)
  EqBegin,     \* <<field, band>> -> EU_EQF<band>_<field>
  AuxBegin,    \* LevelL, LevelR, OnOffL, OnOffR -> EU_Aux1_...
  AuxDelta,    \* EU_Aux2_OnOffL - EU_Aux1_OnOffL
  SumBegin,    \* EU_Summe_Begin
  GroupBegin,  \* EU_Group_Begin
  MaxSets      \* bound: settings made

Kinds == {"INP", "GRP", "SUM", "AUX"}
Bands == 1..4
Fields == {"BandBypass", "BandType", "Quality", "Freq", "Level1"}
AuxParts == {"LevelL", "LevelR", "OnOffL", "OnOffR"}

\* The library's numbers the code relies on: aux buses come in pairs of legs with a
\* block of 16 numbers each, and the blocks of a kind hold its buses.
SumNumbers == SumBegin..(SumBegin + BusWidth - 1)
GroupNumbers == GroupBegin..(GroupBegin + BusWidth - 1)
EqNumbers == {EqBegin[e] : e \in Fields \X Bands}
AuxNumbers == {AuxBegin[p] + 16 * i : p \in AuxParts, i \in 0..(BusWidth - 1)}

ASSUME SignalsAssumption ==
  /\ BusWidth \in Nat /\ MaxSets \in Nat
  /\ FuBase \in [Kinds -> Nat] /\ FuBase["AUX"] % 2 = 0 /\ AuxDelta = 16
  /\ \A j, k \in Kinds :
       j # k => FuBase[j] + BusWidth <= FuBase[k] \/ FuBase[k] + BusWidth <= FuBase[j]

ASSUME NumbersAssumption ==
  /\ EqBegin \in [Fields \X Bands -> Nat] /\ AuxBegin \in [AuxParts -> Nat]
  /\ SumBegin \in Nat /\ GroupBegin \in Nat
  /\ \A d, e \in Fields \X Bands : d # e => EqBegin[d] # EqBegin[e]
  /\ \A p, q \in AuxParts : p # q => AuxBegin[p] # AuxBegin[q] /\ AuxBegin[p] < AuxBegin[q] + 16
  /\ SumNumbers \cap GroupNumbers = {} /\ SumNumbers \cap EqNumbers = {}
  /\ SumNumbers \cap AuxNumbers = {} /\ GroupNumbers \cap EqNumbers = {}
  /\ GroupNumbers \cap AuxNumbers = {} /\ EqNumbers \cap AuxNumbers = {}

VARIABLES
  table,   \* the console: <<number, channel>> -> value, where set
  mixer,   \* what has been asked for: <<subject, channel>> -> value, where set
  sets     \* settings made

signalsVars == <<table, mixer, sets>>

KindOf(fu) == CHOOSE k \in Kinds : FuBase[k] <= fu /\ fu < FuBase[k] + BusWidth

\* The number of a bus among those of its kind.
Index(fu) == fu - FuBase[KindOf(fu)]

-----------------------------------------------------------------------------
(* The numbers a setting goes to ...                                        *)

\* set_eq_band_*: a chain of four cases each, and a ValueError beyond it.
EqSet(field, band) == EqBegin[<<field, band>>]

\* set_aux_gain: the side by the signal, the pair by the bus.
GainSet(fu) ==
  (IF fu % 2 = 0 THEN AuxBegin["LevelL"] ELSE AuxBegin["LevelR"]) + (Index(fu) \div 2) * AuxDelta

SumSet(n) == SumBegin + n
GroupSet(n) == GroupBegin + n

\* Mutant of AuxSet: the legs of a pair are counted as buses.
AuxSet_Unpaired(n) == (IF n % 2 # 0 THEN AuxBegin["OnOffR"] ELSE AuxBegin["OnOffL"]) + 16 * n

\* mcx_aux_assign: the side and the pair by the bus.
AuxSet(n) == (IF n % 2 # 0 THEN AuxBegin["OnOffR"] ELSE AuxBegin["OnOffL"]) + 16 * (n \div 2)

\* mcx_bus_assign: an input given as the bus stands for the sum of its number.
BusSet(fu) ==
  CASE KindOf(fu) \in {"INP", "SUM"} -> SumSet(Index(fu))
    [] KindOf(fu) = "GRP" -> GroupSet(Index(fu))
    [] KindOf(fu) = "AUX" -> AuxSet(Index(fu))

-----------------------------------------------------------------------------
(* ... and those it is asked for under: get_eq_band_*, get_aux_gain and      *)
(* assert_mcx_bus_assign compute them anew.                                 *)

EqAsked(field, band) == EqBegin[<<field, band>>]

GainAsked(fu) ==
  (IF fu % 2 = 0 THEN AuxBegin["LevelL"] ELSE AuxBegin["LevelR"]) + (Index(fu) \div 2) * AuxDelta

SumAsked(n) == SumBegin + n
GroupAsked(n) == GroupBegin + n
AuxAsked(n) == (IF n % 2 # 0 THEN AuxBegin["OnOffR"] ELSE AuxBegin["OnOffL"]) + 16 * (n \div 2)

BusAsked(fu) ==
  CASE KindOf(fu) \in {"INP", "SUM"} -> SumAsked(Index(fu))
    [] KindOf(fu) = "GRP" -> GroupAsked(Index(fu))
    [] KindOf(fu) = "AUX" -> AuxAsked(Index(fu))

-----------------------------------------------------------------------------
(* Settings.                                                                *)

Made == sets < MaxSets /\ sets' = sets + 1

\* f, with the value at all of the keys.
Put(f, keys, value) ==
  [k \in DOMAIN f \cup keys |-> IF k \in keys THEN value ELSE f[k]]

\* An event for each of the subjects, to their numbers.
Events(numbers, subjects, channel, value) ==
  /\ table' = Put(table, numbers \X {channel}, value)
  /\ mixer' = Put(mixer, subjects \X {channel}, value)

\* set_eq_band: of the fields but the bypass those that are given, one event each;
\* and set_eq_band_on.  A wrong band raises before any.
SetEqBand(channel, band, fields, value) ==
  /\ Made
  /\ IF band \in Bands
     THEN Events({EqSet(f, band) : f \in fields}, {<<f, band>> : f \in fields}, channel, value)
     ELSE UNCHANGED <<table, mixer>>

SetAuxGain(fu, channel, value) ==
  /\ Made /\ Events({GainSet(fu)}, {<<"gain", fu>>}, channel, value)

\* The bus that an index stands for.
Bus(fu) == IF KindOf(fu) = "INP" THEN Index(fu) + FuBase["SUM"] ELSE fu

\* mcx_bus_assign: one event, by the kind of the bus.
AssignBus(fu, channel, value) ==
  /\ Made /\ Events({BusSet(fu)}, {<<"bus", Bus(fu)>>}, channel, value)

-----------------------------------------------------------------------------
Fus(kind) == FuBase[kind]..(FuBase[kind] + BusWidth - 1)

FieldsAtOnce == (SUBSET (Fields \ {"BandBypass"})) \cup {{"BandBypass"}}

signalsInit ==
  /\ table = [k \in {} |-> 0] /\ mixer = [k \in {} |-> 0]
  /\ sets = 0

signalsNext ==
  \E channel \in Channels, value \in {0, 1} :
    \/ \E band \in 0..5, fields \in FieldsAtOnce : SetEqBand(channel, band, fields, value)
    \/ \E fu \in Fus("AUX") : SetAuxGain(fu, channel, value)
    \/ \E fu \in UNION {Fus(k) : k \in Kinds} : AssignBus(fu, channel, value)

signalsSpec == signalsInit /\ [][signalsNext]_signalsVars

-----------------------------------------------------------------------------
(* Properties.                                                              *)

Same(number, subject, channel) ==
  LET p == <<number, channel>>
      s == <<subject, channel>>
  IN  /\ p \in DOMAIN table <=> s \in DOMAIN mixer
      /\ p \in DOMAIN table => table[p] = mixer[s]

\* What the code asks for under a number it computes anew is what was set last for
\* that very band, leg or bus, whatever else was set under the numbers it computed
\* there: the two computations agree, and no two settings share a number.
SettingsMeet ==
  \A channel \in Channels :
    /\ \A f \in Fields, b \in Bands : Same(EqAsked(f, b), <<f, b>>, channel)
    /\ \A fu \in Fus("AUX") : Same(GainAsked(fu), <<"gain", fu>>, channel)
    /\ \A k \in Kinds : \A fu \in Fus(k) : Same(BusAsked(fu), <<"bus", Bus(fu)>>, channel)

\* The gain and the assignment of an aux leg, computed from different inputs in
\* different ways, belong to the same pair and the same side of it.
AuxLegsAgree ==
  \A fu \in Fus("AUX") :
    \/ GainSet(fu) - AuxBegin["LevelL"] = BusSet(fu) - AuxBegin["OnOffL"] /\ fu % 2 = 0
    \/ GainSet(fu) - AuxBegin["LevelR"] = BusSet(fu) - AuxBegin["OnOffR"] /\ fu % 2 # 0
=============================================================================
