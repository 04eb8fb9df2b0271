------------------------------ MODULE Controls ------------------------------
(***************************************************************************)
(* The controls of a device (ldf/attributes/controls.py, and set_ctls of    *)
(* ldf/models/kero.py): reading and writing the values of several controls   *)
(* at once, and the page objects that are built from the definition of a     *)
(* page.  Controls are of two kinds, those of the pages (GCF) and those of   *)
(* the endpoint; each kind has its own requests and its own place for the    *)
(* value.                                                                   *)
(***************************************************************************)
EXTENDS Integers, Sequences, FiniteSets, SequencesExt

CONSTANTS
  GcfCtls,        \* controls of pages
  EndpointCtls,   \* controls of the endpoint
  Levels,         \* values: a control's are pairs of it and a level
  Unread,         \* the value of a page's control before it is read
  Iterations,     \* iterations a page may have
  MaxAtOnce,      \* bound: controls of one call
  MaxControlCalls \* bound: calls, and changes by others

ASSUME ControlsAssumption ==
  GcfCtls \cap EndpointCtls = {} /\ {MaxAtOnce, MaxControlCalls} \subseteq Nat /\ Unread \notin Levels

Ctls == GcfCtls \cup EndpointCtls

VARIABLES
  param,    \* HOME: the level of each control
  known,    \* HOME: the controls it has, for the length of the behaviour
  shown,    \* the client's control objects: ctl.value
  made,     \* the endpoint controls' ctl.pb: the value they were made with
  rq,       \* the call: what it does, its controls in order, the values to set
  answer,   \* HOME's answer to the request that is out: values in order
  had,      \* history: the levels a control had in HOME since the call began
  answered, \* history: the kinds of controls that the call was told of
  calls,    \* calls, and changes by others
  page      \* the definition of a page

controlsVars == <<param, known, shown, made, rq, answer, had, answered, calls, page>>

ValueOf(c, x) == <<c, x>>

NoRequest == [at |-> "idle", ctls |-> <<>>, to |-> Unread]

NoAnswer == <<>>

ControlsTypeOK ==
  /\ param \in [Ctls -> Levels] /\ known \subseteq Ctls
  /\ shown \in [Ctls -> Ctls \X (Levels \cup {Unread})]
  /\ made \in [EndpointCtls -> Levels]
  /\ rq.at \in {"idle", "get gcf", "get endpoint", "assign", "set gcf", "set endpoint",
                "sleep", "raised"}
  /\ rq.ctls \in Seq(Ctls) /\ rq.to \in Levels \cup {Unread}
  /\ answer \in Seq(Ctls \X Levels) /\ calls \in 0..MaxControlCalls
  /\ had \in [Ctls -> SUBSET Levels] /\ answered \subseteq {"get gcf", "get endpoint"}

-----------------------------------------------------------------------------
(* HOME.                                                                    *)

Sets(new) ==
  /\ param' = new /\ had' = [c \in Ctls |-> had[c] \cup {new[c]}]

OtherSetsControl(c, x) ==
  /\ calls < MaxControlCalls /\ calls' = calls + 1
  /\ param[c] # x /\ Sets([param EXCEPT ![c] = x])
  /\ UNCHANGED <<known, shown, made, rq, answer, answered, page>>

Asked(kind) == SelectSeq(rq.ctls, LAMBDA c : c \in kind)

AsksOf == IF rq.at \in {"get gcf", "set gcf"} THEN GcfCtls ELSE EndpointCtls

\* Values of the controls HOME has, in the order asked for; what it does not have
\* is left out, so that the others move up.  Of the pages it may tell of a control
\* that nobody asked for.
ServeValues ==
  /\ rq.at \in {"get gcf", "get endpoint"} /\ answer = NoAnswer
  /\ LET has == SelectSeq(Asked(AsksOf), LAMBDA c : c \in known)
         strangers == IF rq.at = "get gcf" THEN GcfCtls \ ToSet(rq.ctls) ELSE {}
         told == {has} \cup {InsertAt(has, k, c) : k \in 1..Len(has) + 1, c \in strangers}
     IN \E t \in told : /\ t # <<>>
                        /\ answer' = [i \in DOMAIN t |-> ValueOf(t[i], param[t[i]])]
  /\ UNCHANGED <<param, known, shown, made, rq, had, answered, calls, page>>

-----------------------------------------------------------------------------
(* get and set.                                                             *)

\* The requests a call goes through: controls of one kind are not asked for
\* when there are none.
After(at) ==
  LET all == <<"get gcf", "get endpoint", "assign", "set gcf", "set endpoint", "sleep">>
      pos == CHOOSE i \in DOMAIN all : all[i] = at
      none(step) == \/ step \in {"get gcf", "set gcf"} /\ Asked(GcfCtls) = <<>>
                    \/ step \in {"get endpoint", "set endpoint"} /\ Asked(EndpointCtls) = <<>>
      next == {i \in pos + 1 .. Len(all) : ~none(all[i])}
  IN all[CHOOSE i \in next : \A j \in next : i <= j]

Goes(at) == rq' = [rq EXCEPT !.at = at]

\* set_ctls with one new value for all of its controls; those given None are not
\* among them.
SetCtls(cs, x) ==
  /\ rq.at = "idle" /\ calls < MaxControlCalls /\ calls' = calls + 1
  /\ rq' = [at |-> IF \E i \in DOMAIN cs : cs[i] \in GcfCtls THEN "get gcf" ELSE "get endpoint",
            ctls |-> cs, to |-> x]
  /\ had' = [c \in Ctls |-> {param[c]}] /\ answered' = {}
  /\ UNCHANGED <<param, known, shown, made, answer, page>>

\* Mutant of Received: the answers are taken to be in the order asked for.
Received_ByPlace ==
  /\ rq.at \in {"get gcf", "get endpoint"} /\ answer # NoAnswer
  /\ shown' = [c \in Ctls |->
       LET i == {j \in DOMAIN answer : j \in DOMAIN Asked(AsksOf) /\ Asked(AsksOf)[j] = c} IN
       IF i = {} THEN shown[c] ELSE answer[CHOOSE j \in i : TRUE]]
  /\ answer' = NoAnswer /\ Goes(After(rq.at)) /\ answered' = answered \cup {rq.at}
  /\ UNCHANGED <<param, known, made, had, calls, page>>

\* _request_values_gcf gives each value to the control with its path, up to the
\* first that nobody asked for, which raises StopIteration; _request_values_endpoint
\* goes through both lists side by side, and passes over a pair that does not match.
Received ==
  /\ rq.at \in {"get gcf", "get endpoint"} /\ answer # NoAnswer
  /\ LET list == Asked(AsksOf)
         taken == IF rq.at = "get endpoint"
                  THEN {j \in DOMAIN answer : list[j] = answer[j][1]}
                  ELSE {j \in DOMAIN answer : \A i \in 1..j : answer[i][1] \in ToSet(list)}
         of(c) == {j \in taken : answer[j][1] = c}
     IN /\ shown' = [c \in Ctls |-> IF of(c) = {} THEN shown[c]
                                    ELSE answer[CHOOSE j \in of(c) : TRUE]]
        /\ Goes(IF rq.at = "get gcf" /\ taken # DOMAIN answer THEN "raised" ELSE After(rq.at))
  /\ answer' = NoAnswer /\ answered' = answered \cup {rq.at}
  /\ UNCHANGED <<param, known, made, had, calls, page>>

\* An answer without a value, as one with an error is, which is dropped; and no
\* answer.
NothingReceived ==
  /\ rq.at \in {"get gcf", "get endpoint"} /\ answer = NoAnswer
  /\ Goes(After(rq.at)) \/ Goes("raised")
  /\ UNCHANGED <<param, known, shown, made, answer, had, answered, calls, page>>

\* ctl.value.value = value, for all of them.
Assign ==
  /\ rq.at = "assign"
  /\ shown' = [c \in Ctls |->
       IF \E i \in DOMAIN rq.ctls : rq.ctls[i] = c THEN ValueOf(c, rq.to) ELSE shown[c]]
  /\ Goes(After("assign"))
  /\ UNCHANGED <<param, known, made, answer, had, answered, calls, page>>

\* What set sends: of a page's control its value, and of the endpoint's the
\* object as it was made; the latter request names all controls of the call.
Sends(at) ==
  IF at = "set gcf" THEN {shown[c] : c \in {Asked(GcfCtls)[i] : i \in DOMAIN Asked(GcfCtls)}}
  ELSE {ValueOf(c, made[c]) : c \in {Asked(EndpointCtls)[i] : i \in DOMAIN Asked(EndpointCtls)}}

\* HOME takes what it knows, or nothing, and its error is dropped; or there is no
\* answer.  It is waited for a fifth of a second.
SetRequest ==
  /\ rq.at \in {"set gcf", "set endpoint"}
  /\ \/ /\ Sets([c \in Ctls |->
             IF c \in known /\ \E v \in Sends(rq.at) : v[1] = c
             THEN (CHOOSE v \in Sends(rq.at) : v[1] = c)[2] ELSE param[c]])
        /\ Goes(After(rq.at)) \/ Goes("raised")
     \/ /\ Goes(After(rq.at)) \/ Goes("raised")
        /\ UNCHANGED <<param, had>>
  /\ UNCHANGED <<known, shown, made, answer, answered, calls, page>>

Slept ==
  /\ rq.at \in {"sleep", "raised"} /\ rq' = NoRequest /\ answer' = NoAnswer
  /\ UNCHANGED <<param, known, shown, made, had, answered, calls, page>>

\* device.controls() makes the endpoint's controls anew from the cached endpoint;
\* here it is current.
MakeControls ==
  /\ rq.at = "idle" /\ calls < MaxControlCalls /\ calls' = calls + 1
  /\ made' = [c \in EndpointCtls |-> param[c]]
  /\ shown' = [c \in Ctls |-> ValueOf(c, IF c \in GcfCtls THEN Unread ELSE param[c])]
  /\ UNCHANGED <<param, known, rq, answer, had, answered, page>>

-----------------------------------------------------------------------------
(* LawoGCFPage: the controls of a page object and of its children.          *)

\* A page with iterations: those to ignore, and for each control whether it is
\* one for all iterations (#GLOB) and the iterations that ignore it.
PageDefs == [ignored : SUBSET Iterations,
             ctls : [GcfCtls -> [glob : BOOLEAN, ignored : SUBSET Iterations]]]

\* The page of a behaviour whose requests are looked at.
PlainPage == [ignored |-> {}, ctls |-> [c \in GcfCtls |-> [glob |-> FALSE, ignored |-> {}]]]

Globs(p) == {c \in GcfCtls : p.ctls[c].glob}

\* The page object of an iteration takes the controls that ignore it ...
OwnControls(p, i) == {c \in GcfCtls : i \in p.ctls[c].ignored}

\* ... and its parent adds the ones that do not, the global ones left aside.
AddedControls(p, i) ==
  {c \in GcfCtls : i \notin p.ctls[c].ignored /\ ~p.ctls[c].glob}

Children(p) == Iterations \ p.ignored

ControlsOf(p, i) == OwnControls(p, i) \cup AddedControls(p, i)

\* A control is to be added to an iteration that the page itself ignores: the
\* KeyError reaches the caller as an UnknownGCFPageError.
PageRaises(p) == \E i \in p.ignored : AddedControls(p, i) # {}

-----------------------------------------------------------------------------
controlsInit ==
  /\ \E x \in Levels : param = [c \in Ctls |-> x]
  /\ known \in SUBSET Ctls
  /\ made = [c \in EndpointCtls |-> param[c]]
  /\ shown = [c \in Ctls |-> ValueOf(c, IF c \in GcfCtls THEN Unread ELSE param[c])]
  /\ rq = NoRequest /\ answer = NoAnswer
  /\ had = [c \in Ctls |-> {param[c]}] /\ answered = {}
  /\ \/ calls = 0 /\ page = PlainPage
     \/ calls = MaxControlCalls /\ known = {} /\ page \in PageDefs

controlsNext ==
  \/ \E c \in Ctls, x \in Levels : OtherSetsControl(c, x)
  \/ \E cs \in UNION {[1..n -> Ctls] : n \in 1..MaxAtOnce}, x \in Levels :
       /\ \A i, j \in DOMAIN cs : i # j => cs[i] # cs[j]
       /\ SetCtls(cs, x)
  \/ ServeValues \/ Received \/ NothingReceived \/ Assign \/ SetRequest \/ Slept
  \/ MakeControls

controlsSpec == controlsInit /\ [][controlsNext]_controlsVars

-----------------------------------------------------------------------------
(* Properties.                                                              *)

\* What set_ctls builds on: when its requests are answered, each control it names
\* that HOME has shows a value HOME had since the call began, whichever others HOME
\* leaves out or adds; of the endpoint's, those that were asked for before the first
\* that is left out, as the rest moves up and is passed over.
ReadIsCurrent ==
  rq.at = "assign" =>
    \A n \in DOMAIN rq.ctls :
      LET c == rq.ctls[n] IN
        (/\ c \in known
         /\ \/ c \in GcfCtls /\ "get gcf" \in answered
            \/ /\ c \in EndpointCtls /\ "get endpoint" \in answered
               /\ \A i \in 1..n : rq.ctls[i] \in EndpointCtls => rq.ctls[i] \in known)
          => \E x \in had[c] : shown[c] = ValueOf(c, x)

-----------------------------------------------------------------------------
(* Claims of the documentation that the code does not keep.                 *)

\* controls.py:415, "A list of modified Control values to apply to the device":
\* of the endpoint's controls the value they were made with is sent.
EndpointIsSet ==
  [][rq.at = "set endpoint" /\ rq'.at = "sleep" =>
       \A i \in DOMAIN rq.ctls :
         rq.ctls[i] \in EndpointCtls \cap known => param'[rq.ctls[i]] = rq.to]_<<rq, param>>

\* controls.py:200, "logic reads as ""if not in"" but should be ""if in"", why does
\* this work?": it does not, an iteration has the controls that ignore it.
IgnoredIsLeftOut ==
  \A i \in Children(page), c \in GcfCtls :
    i \in page.ctls[c].ignored => c \notin ControlsOf(page, i)

\* controls.py:296, "is not part of this devices GCF definition": it is.
ListedPageIsFound == ~PageRaises(page)
=============================================================================
