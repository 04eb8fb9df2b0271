---------------------------- MODULE PathFinding -----------------------------
(***************************************************************************)
(* The path of a route through the switches                                *)
(* (ldf/models/home_controller/routes.py, _find_path): for each leg of the *)
(* redundant stream the stitches of its multicast groups are followed from *)
(* the interface of the source, hop by hop, to that of the destination.    *)
(* It runs in an event loop of its own, so that nothing changes meanwhile. *)
(***************************************************************************)
EXTENDS Integers, Sequences, FiniteSetsExt, SequencesExt

CONSTANTS
  Chassis, Media,   \* switches and devices; names of interfaces
  Hubs,             \* the switches
  Heard,            \* LLDP: interface to the one it is plugged to, or NoIface
  NoIface,
  From, Ends,       \* by leg: the source's interface; the destination's is one of
  MaxStitches       \* bound: stitches of both legs together

Legs == {"pri", "sec"}
Iface == Chassis \X Media
PathStitch == [switch: Hubs, input: Media, output: Media]

ASSUME PathAssumption ==
  /\ Hubs \subseteq Chassis /\ NoIface \notin Iface
  /\ Heard \in [Iface -> Iface \cup {NoIface}]
  /\ From \in [Legs -> Iface] /\ Ends \in [Legs -> SUBSET Iface]
  /\ MaxStitches \in Nat

VARIABLES
  groups,      \* by leg: the stitches of its groups, in the order of the list
  interfaces,  \* self._interfaces
  dest,        \* by leg: the destination's interface
  at,          \* the leg that is followed, or a phase
  hop,         \* current_hop
  path,        \* by leg: the stitches yielded, each at its first time
  again        \* history: a stitch was yielded a second time

pathVars == <<groups, interfaces, dest, at, hop, path, again>>

PathTypeOK ==
  /\ groups \in [Legs -> Seq(PathStitch)] /\ interfaces \subseteq Iface
  /\ dest \in [Legs -> Iface]
  /\ at \in Legs \cup {"asked", "not_asked", "found", "none"}
  /\ hop \in Iface /\ path \in [Legs -> Seq(PathStitch)] /\ again \in BOOLEAN

-----------------------------------------------------------------------------
NoPath == [leg \in Legs |-> <<>>]

Settled == UNCHANGED <<groups, interfaces, dest>>

\* Both paths are empty whatever fails.
Fails == at' = "none" /\ path' = NoPath /\ UNCHANGED <<hop, again>>

\* _active_routes: inside a running event loop asyncio.run raises; and
\* _find_path does if an interface of source or destination is not known.
PathFails ==
  /\ at = "asked"
  /\ at' = "not_asked"
  /\ UNCHANGED <<hop, path, again>> /\ Settled

FindPath ==
  /\ at = "asked"
  /\ \A leg \in Legs : {From[leg], dest[leg]} \subseteq interfaces
  /\ at' = "pri" /\ hop' = From["pri"]
  /\ UNCHANGED <<path, again>> /\ Settled

\* The leg is through: the other one, or the end.
LegEnds ==
  IF at = "pri" THEN at' = "sec" /\ hop' = From["sec"]
  ELSE at' = "found" /\ UNCHANGED hop

\* Mutant of Matching: the input is looked for on any switch.
Matching_AnySwitch(leg, h) ==
  {i \in DOMAIN groups[leg] :
     Heard[h] # NoIface /\ groups[leg][i].input = Heard[h][2]}

\* The stitches that take in what the interface sends.
Matching(leg, h) ==
  {i \in DOMAIN groups[leg] :
     <<groups[leg][i].switch, groups[leg][i].input>> = Heard[h]}

\* One turn of the loop: the first such stitch, and the interface it leads to.
\* With that one unknown the `break' in `finally' still ends a leg whose current
\* hop is the destination, and drops the error.
FollowStitch ==
  /\ at \in Legs /\ Matching(at, hop) # {}
  /\ LET stitch == groups[at][Min(Matching(at, hop))]
         next == <<stitch.switch, stitch.output>>
         yielded == /\ path' = IF Contains(path[at], stitch) THEN path
                               ELSE [path EXCEPT ![at] = Append(@, stitch)]
                    /\ again' = (again \/ Contains(path[at], stitch))
     IN  IF next \in interfaces
         THEN /\ yielded
              /\ IF next = dest[at] THEN LegEnds ELSE hop' = next /\ UNCHANGED at
         ELSE IF hop = dest[at] THEN yielded /\ LegEnds ELSE Fails
  /\ Settled

\* No such stitch.  The generator yields the last one again, or has none to
\* yield, before the error: either way it comes to an exception.
NoStitch ==
  /\ at \in Legs /\ Matching(at, hop) = {}
  /\ Fails /\ Settled

-----------------------------------------------------------------------------
\* Switches hand nothing back where it came in; one interface of them may be
\* missing in the list.
SomeStitches == {x \in PathStitch : x.input # x.output}

pathStarts(g, known, d) ==
  /\ groups = g /\ interfaces = known /\ dest = d
  /\ at = "asked" /\ hop = From["pri"] /\ path = NoPath /\ again = FALSE

\* The list holds each stitch once.
StitchLists(n) == {s \in [1..n -> SomeStitches] : IsInjective(s)}

pathInit ==
  \E n \in 0..MaxStitches :
    \E p \in StitchLists(n), s \in UNION {StitchLists(m) : m \in 0..(MaxStitches - n)},
       x \in (Hubs \X Media) \cup {NoIface}, pri \in Ends["pri"], sec \in Ends["sec"] :
      pathStarts([pri |-> p, sec |-> s], Iface \ {x}, [pri |-> pri, sec |-> sec])

pathNext == PathFails \/ FindPath \/ FollowStitch \/ NoStitch

pathSpec == pathInit /\ [][pathNext]_pathVars

-----------------------------------------------------------------------------
(* Properties.                                                              *)

\* The stitches lead from one interface to the other.
Joins(p, from, to) ==
  /\ p # <<>>
  /\ <<p[1].switch, p[1].input>> = Heard[from]
  /\ \A i \in 1..(Len(p) - 1) :
       <<p[i + 1].switch, p[i + 1].input>> = Heard[<<p[i].switch, p[i].output>>]
  /\ <<p[Len(p)].switch, p[Len(p)].output>> = to

\* A closed walk of stitches of one leg.
Loop(leg) ==
  \E S \in (SUBSET ToSet(groups[leg])) \ {{}} :
    \A x \in S : \E y \in S : <<y.switch, y.input>> = Heard[<<x.switch, x.output>>]

\* Paths that are found lead from the source to the destination, both legs, if
\* these differ; and the search takes a stitch twice only where the stitches
\* close a loop.  Without one it ends, as it takes a new stitch at every turn.
PathIsWalk ==
  /\ at = "found" =>
       \A leg \in Legs :
         From[leg] # dest[leg] => Joins(path[leg], From[leg], dest[leg])
  /\ again => \E leg \in Legs : Loop(leg)

-----------------------------------------------------------------------------
(* Claims of the documentation that the code does not keep.                 *)

\* routes.py:166, "Finds the path of stitches used to route": not where a group
\* is sent on to two outputs and the stitch of the other one is listed first.
UsedIsFound ==
  at = "none" /\ interfaces = Iface =>
    ~\A leg \in Legs : \E p \in SeqOf(ToSet(groups[leg]), MaxStitches) :
       Joins(p, From[leg], dest[leg])
=============================================================================
