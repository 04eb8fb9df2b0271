----------------------------- MODULE McxConsole -----------------------------
(***************************************************************************)
(* Steering an MCX console (ldf/models/mcx/mcx.py).  A setting is an event  *)
(* that nothing acknowledges (mcx_event); a question (mcx_get) is answered  *)
(* from the console's database or runs into its timeout.  Buttons, checked  *)
(* settings, the configuration of the mixer and the questions that take two *)
(* answers are built from these two.                                        *)
(*                                                                          *)
(* Events and questions travel on one connection.  A prompt console works   *)
(* off what it received before it answers; another one answers while events *)
(* are still waiting in its inbox.                                          *)
(***************************************************************************)
EXTENDS Integers, Sequences

CONSTANTS
  Lamps,     \* states of the lamp of a button
  Values,    \* values of a field of a parameter
  Width,     \* fields of a parameter
  Counts,    \* counts of a resource of the mixer
  Listens,   \* what listen_enabled and afl1_surround_format may be
  Default,   \* what they are if a call does not give them
  Signals,   \* indexes of signals (fu_index)
  MasterBase, MasterEnd,  \* FU_SURROUND_MASTER_BASE, FU_SURROUND_MASTER_END
  None       \* no value: none of the above

ASSUME McxAssumption ==
  /\ Counts \subseteq Nat /\ Signals \subseteq Nat
  /\ Width \in Nat \ {0} /\ {MasterBase, MasterEnd} \subseteq Nat
  /\ Default \in Listens /\ None \notin Lamps \cup Values \cup Listens \cup Counts

VARIABLES
  con,    \* the console's ways: what a press does, what a setting becomes, field
          \* by field, how many fields it tells of, if it is prompt
  db,     \* the console's database
  inbox,  \* events received, not yet worked off
  call,   \* the call: what it is, its arguments, where it is, what it has read;
          \* history: the database as others left it, and if they changed the
          \* configuration after it was read
  alone   \* history: nobody else touched the console since the call began

mcxVars == <<con, db, inbox, call, alone>>

Buttons == {"toggle_button_to", "toggle_button_from"}
Checks == {"set_and_check", "set_and_check_not", "assert_MND", "assert_MND_not"}
Configs == {"mcx_apply_uhd_dsp_config", "mcx_apply_crm_config"}
Reads == {"get_first_surround_signal", "mcx_get_dsp_channel_count"}

Config == [main: Counts, extra: Counts, crm: BOOLEAN, listen: Listens]

\* A parameter: its fields, of which the console may tell fewer than were set.
Data(n) == [1..n -> Values]

Ended == {"ok", "ValueError", "AssertionError", "TimeoutError"}

mcxTypeOK ==
  /\ con.next \in [Lamps -> Lamps] /\ con.takes \in [1..Width -> [Values -> Values]]
  /\ con.prompt \in BOOLEAN /\ con.tells \in 1..Width
  /\ db.lamp \in Lamps /\ db.value \in Data(con.tells) /\ db.config \in Config
  /\ db.bundle \in 0..8 /\ db.active \in {1, 2}
  /\ \A k \in 1..Len(inbox) : inbox[k].op \in {"down", "up", "set", "config"}
  /\ call.kind \in Buttons \cup Checks \cup Configs \cup Reads
  /\ call.pc \in {"begin", "look", "press", "release", "check",
                  "second"} \cup Ended
  /\ call.tries \in 0..6
  /\ alone \in BOOLEAN

-----------------------------------------------------------------------------
(* The console, and others at it.                                           *)

\* What it makes of a setting.
Taken(data) == [i \in 1..con.tells |-> con.takes[i][data[i]]]

Handle ==
  /\ inbox # <<>>
  /\ LET e == Head(inbox)
     IN  db' = CASE e.op = "down" -> [db EXCEPT !.lamp = con.next[@]]
                 [] e.op = "up" -> db
                 [] e.op = "set" -> [db EXCEPT !.value = Taken(e.data)]
                 [] e.op = "config" -> [db EXCEPT !.config = e.data]
  /\ inbox' = Tail(inbox)
  /\ UNCHANGED <<con, call, alone>>

\* Someone at the console, or another client, while the call is under way.
Others ==
  /\ call.pc \notin Ended \/ inbox # <<>>
  /\ CASE call.kind \in Buttons -> \E l \in Lamps : db' = [db EXCEPT !.lamp = l]
       [] call.kind \in Checks -> \E v \in Data(con.tells) : db' = [db EXCEPT !.value = v]
       [] call.kind \in Configs -> \E c \in Config : db' = [db EXCEPT !.config = c]
       [] call.kind \in Reads ->
            \/ \E b \in {0, 6, 8} : db' = [db EXCEPT !.bundle = b]
            \/ db' = [db EXCEPT !.active = 3 - @]
  /\ db' # db
  /\ alone' = FALSE
  /\ call' = [call EXCEPT !.left = db',
                          !.overlap = @ \/ call.pc \notin {"begin", "look"}]
  /\ UNCHANGED <<con, inbox>>

Answers == con.prompt => inbox = <<>>

To(pc) == call' = [call EXCEPT !.pc = pc]
Send(op, data) == inbox' = Append(inbox, [op |-> op, data |-> data])

-----------------------------------------------------------------------------
(* Buttons: press until the lamp shows it, or press once and look.          *)

\* Mutant of SeesLamp: one attempt.
SeesLamp_Once ==
  /\ call.kind = "toggle_button_to" /\ call.pc = "look" /\ Answers
  /\ CASE db.lamp = call.want -> To("ok")
       [] db.lamp # call.want /\ call.tries > 0 -> To("ValueError")
       [] OTHER -> To("press")
  /\ UNCHANGED <<con, db, inbox, alone>>

SeesLamp ==
  /\ call.kind = "toggle_button_to" /\ call.pc = "look" /\ Answers
  /\ CASE db.lamp = call.want -> To("ok")
       [] db.lamp # call.want /\ call.tries > 5 -> To("ValueError")
       [] OTHER -> To("press")
  /\ UNCHANGED <<con, db, inbox, alone>>

SeesOtherLamp ==
  /\ call.kind = "toggle_button_from" /\ call.pc = "look" /\ Answers
  /\ CASE db.lamp # call.want -> To("ok")
       [] db.lamp = call.want /\ call.tries > 0 -> To("ValueError")
       [] OTHER -> To("press")
  /\ UNCHANGED <<con, db, inbox, alone>>

\* toggle_button: down, a pause, up.
Press ==
  /\ call.pc = "press"
  /\ Send("down", None) /\ To("release")
  /\ UNCHANGED <<con, db, alone>>

Release ==
  /\ call.pc = "release"
  /\ Send("up", None)
  /\ call' = [call EXCEPT !.pc = "look", !.tries = @ + 1]
  /\ UNCHANGED <<con, db, alone>>

-----------------------------------------------------------------------------
(* Checked settings.                                                        *)

Setting == call.kind \in {"set_and_check", "set_and_check_not"}

Set ==
  /\ Setting /\ call.pc = "begin"
  /\ Send("set", call.want) /\ To("look")
  /\ UNCHANGED <<con, db, alone>>

\* Only set_and_check tries again, once, whatever went wrong.
Failed(error) ==
  IF call.kind = "set_and_check" /\ call.tries = 0
  THEN call' = [call EXCEPT !.pc = "begin", !.tries = 1]
  ELSE To(error)

\* zip: fields are compared up to the end of the shorter of the two.
Compared == 1..Len(db.value)

Differs(i) == db.value[i] # call.want[i]

\* Mutant of Met: one field that is as wanted is enough.
Met_AnyField ==
  CASE call.kind \in {"set_and_check", "assert_MND"} -> \E i \in Compared : ~Differs(i)
    [] call.kind = "set_and_check_not" -> \A i \in Compared : Differs(i)
    [] OTHER -> Len(db.value) # Len(call.want) \/ \E i \in Compared : Differs(i)

\* set_and_check_not wants every field to differ, assert_MND_not one of them or
\* their number.
Met ==
  CASE call.kind \in {"set_and_check", "assert_MND"} -> \A i \in Compared : ~Differs(i)
    [] call.kind = "set_and_check_not" -> \A i \in Compared : Differs(i)
    [] OTHER -> Len(db.value) # Len(call.want) \/ \E i \in Compared : Differs(i)

SeesValue ==
  /\ call.kind \in Checks /\ call.pc = "look" /\ Answers
  /\ IF Met THEN To("ok") ELSE Failed("AssertionError")
  /\ UNCHANGED <<con, db, inbox, alone>>

-----------------------------------------------------------------------------
(* The configuration of the mixer: read, modify, write.                     *)

\* mcx_apply_uhd_dsp_config takes counts in eights only.
Refused ==
  /\ call.kind = "mcx_apply_uhd_dsp_config" /\ call.pc = "begin"
  /\ call.want.main % 8 # 0
  /\ To("ValueError")
  /\ UNCHANGED <<con, db, inbox, alone>>

ReadConfig ==
  /\ call.kind \in Configs /\ call.pc = "begin"
  /\ call.kind = "mcx_apply_uhd_dsp_config" => call.want.main % 8 = 0
  /\ To("look")
  /\ UNCHANGED <<con, db, inbox, alone>>

\* What the listens are set to, given or not.
Listen == IF call.want.listen = None THEN Default ELSE call.want.listen

\* Mutant of Modified: the configuration is built from scratch.
Modified_Fresh(config) ==
  IF call.kind = "mcx_apply_crm_config" THEN [config EXCEPT !.crm = call.want.crm]
  ELSE [main |-> call.want.main, crm |-> FALSE, listen |-> Listen,
        extra |-> IF call.want.extra \in {None, 0} THEN config.extra ELSE call.want.extra]

\* A count of an optional resource that is not given, or zero, changes nothing;
\* listens that are not given are set to their defaults.
Modified(config) ==
  IF call.kind = "mcx_apply_crm_config" THEN [config EXCEPT !.crm = call.want.crm]
  ELSE [config EXCEPT !.main = call.want.main, !.listen = Listen,
                      !.extra = IF call.want.extra \in {None, 0} THEN @
                                ELSE call.want.extra]

\* Nothing is awaited between the answer and the event that sends it back.
WriteConfig ==
  /\ call.kind \in Configs /\ call.pc = "look" /\ Answers
  /\ Send("config", Modified(db.config))
  /\ call' = [call EXCEPT !.pc = IF call.want.do_check THEN "check" ELSE "ok",
                          !.read = Modified(db.config)]
  /\ UNCHANGED <<con, db, alone>>

CheckConfig ==
  /\ call.kind \in Configs /\ call.pc = "check" /\ Answers
  /\ To(IF db.config = call.read THEN "ok" ELSE "AssertionError")
  /\ UNCHANGED <<con, db, inbox, alone>>

-----------------------------------------------------------------------------
(* Questions that take more than one answer.  `at' is the signal asked for,  *)
(* in `read' what the last answer leads to.                                  *)

\* The console: the first db.bundle signals of a block of eight are a bundle.
InBundle(fu) == fu % 8 < db.bundle
Floor(fu) == fu - (fu % 8)

IsMaster(fu) == MasterBase <= fu /\ fu <= MasterEnd

\* get_first_surround_signal of a surround master: nothing is asked.
KnowsMaster ==
  /\ call.kind = "get_first_surround_signal" /\ call.pc = "begin"
  /\ call' = [call EXCEPT !.pc = "ok", !.read = (call.at - MasterBase) * 8]
  /\ UNCHANGED <<con, db, inbox, alone>>

\* get_first_surround_signal: the format of the signal; of none and not the
\* first of its block, that of the first.
ReadsFormat ==
  /\ call.kind = "get_first_surround_signal" /\ call.pc = "look" /\ Answers
  /\ CASE InBundle(call.at) -> To("second")
       [] ~InBundle(call.at) /\ call.at # Floor(call.at) ->
            call' = [call EXCEPT !.at = Floor(@)]
       [] OTHER -> call' = [call EXCEPT !.pc = "ok", !.read = call.at]
  /\ UNCHANGED <<con, db, inbox, alone>>

\* Mutant of ReadsIndex: the index is taken for the signal.
ReadsIndex_Raw ==
  /\ call.kind = "get_first_surround_signal" /\ call.pc = "second" /\ Answers
  /\ call' = [call EXCEPT !.pc = "ok", !.read = call.at + (call.at % 8)]
  /\ UNCHANGED <<con, db, inbox, alone>>

\* A signal that has left its bundle since has the index 0.
ReadsIndex ==
  /\ call.kind = "get_first_surround_signal" /\ call.pc = "second" /\ Answers
  /\ call' = [call EXCEPT !.pc = "ok",
                          !.read = call.at - (IF InBundle(call.at) THEN (call.at % 8) ELSE 0)]
  /\ UNCHANGED <<con, db, inbox, alone>>

\* The counts of a UHD Core: first which one is active, then its count.
ReadsActive ==
  /\ call.kind = "mcx_get_dsp_channel_count" /\ call.pc = "look" /\ Answers
  /\ call' = [call EXCEPT !.pc = "second", !.at = db.active]
  /\ UNCHANGED <<con, db, inbox, alone>>

ReadsCount ==
  /\ call.kind = "mcx_get_dsp_channel_count" /\ call.pc = "second" /\ Answers
  /\ call' = [call EXCEPT !.pc = "ok", !.read = call.at]
  /\ UNCHANGED <<con, db, inbox, alone>>

\* A question runs into its timeout; set_and_check tells a console that is
\* still connected (ValueError) from one that is not.
NoAnswer ==
  /\ call.pc \in {"look", "check", "second"}
  /\ IF call.kind = "set_and_check"
     THEN \E error \in {"ValueError", "TimeoutError"} : Failed(error)
     ELSE To("TimeoutError")
  /\ UNCHANGED <<con, db, inbox, alone>>

-----------------------------------------------------------------------------
SomeCon == [next |-> [l \in Lamps |-> l], takes |-> [i \in 1..Width |-> [v \in Values |-> v]],
            tells |-> Width, prompt |-> TRUE]

SomeDb == [lamp |-> CHOOSE l \in Lamps : TRUE, value |-> CHOOSE v \in Data(Width) : TRUE,
           config |-> CHOOSE c \in Config : TRUE, bundle |-> 0, active |-> 1]

\* The console, its database and what is wanted: what a call is about varies, the
\* rest of the console is left as it is.
ButtonInputs ==
  [next: [Lamps -> Lamps], takes: {SomeCon.takes}, tells: {Width}, prompt: BOOLEAN]
    \X {[SomeDb EXCEPT !.lamp = l] : l \in Lamps} \X Lamps

CheckInputs(tells) ==
  [next: {SomeCon.next}, takes: [1..Width -> [Values -> Values]], tells: {tells},
   prompt: BOOLEAN]
    \X {[SomeDb EXCEPT !.value = v] : v \in Data(tells)} \X Data(Width)

Cons == {[SomeCon EXCEPT !.prompt = p] : p \in BOOLEAN}

ConfigInputs(wants) == Cons \X {[SomeDb EXCEPT !.config = c] : c \in Config} \X wants

ReadInputs == Cons \X {[SomeDb EXCEPT !.bundle = b] : b \in {0, 6, 8}} \X Signals

Inputs(kind) ==
  CASE kind \in Buttons -> ButtonInputs
    [] kind \in Checks -> UNION {CheckInputs(n) : n \in 1..Width}
    [] kind = "mcx_apply_uhd_dsp_config" ->
         ConfigInputs([main: Counts, extra: Counts \cup {None}, listen: Listens \cup {None},
                       do_check: BOOLEAN])
    [] kind = "mcx_apply_crm_config" -> ConfigInputs([crm: BOOLEAN, do_check: {FALSE}])
    [] kind \in Reads -> ReadInputs

\* Where a call begins: with a question, or with something before it.
First(kind, want) ==
  IF \/ kind \in Configs \cup {"set_and_check", "set_and_check_not"}
     \/ kind = "get_first_surround_signal" /\ IsMaster(want)
  THEN "begin" ELSE "look"

Starts ==
  UNION {{[con |-> in[1], db |-> in[2],
           call |-> [kind |-> kind, want |-> in[3], tries |-> 0, pc |-> First(kind, in[3]),
                     at |-> IF kind = "get_first_surround_signal" THEN in[3] ELSE 0,
                     read |-> None, left |-> in[2], overlap |-> FALSE]] :
            in \in Inputs(kind)} : kind \in Buttons \cup Checks \cup Configs \cup Reads}

StartsAs(s) ==
  con = s.con /\ db = s.db /\ call = s.call /\ inbox = <<>> /\ alone = TRUE

mcxInit == \E s \in Starts : StartsAs(s)

mcxNext ==
  \/ Handle \/ Others \/ NoAnswer
  \/ SeesLamp \/ SeesOtherLamp \/ Press \/ Release
  \/ Set \/ SeesValue
  \/ Refused \/ ReadConfig \/ WriteConfig \/ CheckConfig
  \/ KnowsMaster \/ ReadsFormat \/ ReadsIndex \/ ReadsActive \/ ReadsCount

mcxSpec == mcxInit /\ [][mcxNext]_mcxVars

-----------------------------------------------------------------------------
(* Properties.  A console is prompt, and nobody else touches it, where they  *)
(* say so: with another one a late answer or press decides.                  *)

Undisturbed == con.prompt /\ alone

\* toggle_button_to returns with the lamp as wanted, toggle_button_from (and
\* so set_button_on) with the lamp no longer as it was: no press comes late.
ToggledIsThere ==
  (call.kind \in Buttons /\ call.pc = "ok" /\ Undisturbed)
    => (db.lamp = call.want <=> call.kind = "toggle_button_to")

Pressed(l, n) == LET lamp[k \in 0..n] == IF k = 0 THEN l ELSE con.next[lamp[k - 1]]
                 IN  lamp[n]

\* The error of a button is true: six presses from where it was do not show the
\* lamp wanted, or a press leaves the lamp it was to leave.
ToggleErrorsAreTrue ==
  (call.kind \in Buttons /\ call.pc = "ValueError" /\ Undisturbed)
    => IF call.kind = "toggle_button_to"
       THEN \A n \in 0..6 : Pressed(call.left.lamp, n) # call.want
       ELSE con.next[call.want] = call.want

\* Whatever a button call comes to is true of the console.
ButtonsTellTheTruth == ToggledIsThere /\ ToggleErrorsAreTrue

\* What the checks of a setting may have told of, if nobody else touches the
\* console: what it made of the setting, or, of a console that is not prompt, what
\* was there before the call.
MayHaveTold == {Taken(call.want)} \cup (IF con.prompt THEN {} ELSE {call.left.value})

Kept(data) == {i \in DOMAIN data : data[i] = call.want[i]}

\* A checked setting that returns is in force in each field the console tells of
\* (for set_and_check_not: in none), also after a retry, and one that fails its
\* assertion is not to be had; a late console may tell of the value before, and
\* of no other.
CheckedIsInForce ==
  (Setting /\ alone) =>
    LET good(data) == Kept(data) = IF call.kind = "set_and_check" THEN DOMAIN data ELSE {}
    IN  /\ call.pc = "ok" => \E data \in MayHaveTold : good(data)
        /\ call.pc = "ok" /\ con.prompt => db.value = Taken(call.want)
        /\ call.pc = "AssertionError" => \E data \in MayHaveTold : ~good(data)

\* What others wrote before the configuration was read is kept by both ways of
\* applying one, except what the call names, and the listens; who writes between
\* the answer and the event is lost, and that is all that is lost.
ConfigKeepsOthers ==
  (call.kind \in Configs /\ call.pc = "ok" /\ inbox = <<>> /\ ~call.overlap) =>
    LET theirs == call.left.config
    IN  IF call.kind = "mcx_apply_crm_config"
        THEN db.config = [theirs EXCEPT !.crm = call.want.crm]
        ELSE /\ db.config.crm = theirs.crm /\ db.config.main = call.want.main
             /\ call.want.extra \in {None, theirs.extra}
                  => db.config.extra = theirs.extra
             /\ db.config.listen = Listen

\* The block of eight a signal belongs to, or is the master of.
Block(fu) == IF IsMaster(fu) THEN fu - MasterBase ELSE fu \div 8

\* The first surround signal is the first of its block, and of the same block
\* even when the bundle is dissolved between the answers (get_surround_master
\* relies on the block alone); the counts are those of the active UHD Core
\* unless it changed meanwhile.
ReadsFit ==
  (call.kind \in Reads /\ call.pc = "ok") =>
    IF call.kind = "get_first_surround_signal"
    THEN /\ call.read \div 8 = Block(call.want)
         /\ alone => call.read = 8 * Block(call.want)
    ELSE alone => call.read = db.active

-----------------------------------------------------------------------------
(* Claims of the documentation that the code does not keep.                 *)

\* mcx.py:307, "Toggle a button to a specific state. (max 5 attempts)".
AtMostFiveAttempts == call.tries <= 5

\* mcx.py:1108, "First request the current configuration, to get the user config
\* flags": those of the listens are overwritten even if the call does not give them.
FlagsAreKept ==
  (/\ call.kind = "mcx_apply_uhd_dsp_config" /\ call.pc = "ok" /\ inbox = <<>>
   /\ ~call.overlap /\ call.want.listen = None)
    => db.config.listen = call.left.config.listen
=============================================================================
