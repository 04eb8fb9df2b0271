------------------------- MODULE McxSession_proofs -------------------------
(***************************************************************************)
(* What a session with an MCX console keeps to, whichever of its parts it    *)
(* uses.  McxConsole: one invariant per kind of call ties what is on its     *)
(* way, what the call has seen and what the console shows to what it began   *)
(* with.  McxFiles: the worker has nothing but the request of a watched      *)
(* call, and a flag seen changing was changed by it.  McxSignals: two        *)
(* settings share a number only where they are the same setting.             *)
(***************************************************************************)
EXTENDS McxSession, TLAPS

-----------------------------------------------------------------------------
(* The console: its inductive invariant.                                    *)

AllKinds == Buttons \cup Checks \cup Configs \cup Reads

\* What the proofs need of the types, and what no step changes of a call.
ConsoleTyped ==
  /\ DOMAIN db = {"lamp", "value", "config", "bundle", "active"}
  /\ DOMAIN call = {"kind", "want", "tries", "pc", "at", "read", "left", "overlap"}
  /\ DOMAIN con = {"next", "takes", "tells", "prompt"}
  /\ call.kind \in AllKinds /\ call.tries \in Nat
  /\ con.prompt \in BOOLEAN /\ alone \in BOOLEAN /\ call.overlap \in BOOLEAN

Down == [op |-> "down", data |-> None]
Up == [op |-> "up", data |-> None]
SetWanted == [op |-> "set", data |-> call.want]
Written(d) == [op |-> "config", data |-> d]

\* Each kind of call has its own places, and its own events.
PlacesFit ==
  /\ call.pc \in {"press", "release"} => call.kind \in Buttons
  /\ call.pc = "check" => call.kind \in Configs
  /\ call.kind \in Buttons => inbox \in Seq({Down, Up})
  /\ call.kind \in Checks => inbox \in Seq({SetWanted})
  /\ call.kind \in Configs =>
       /\ inbox = <<>> \/ inbox = <<Written(inbox[1].data)>>
       /\ call.pc \in {"begin", "look"} => inbox = <<>>
  /\ call.kind \in Reads => inbox = <<>>

-----------------------------------------------------------------------------
(* Buttons.  What the lamp shows is the lamp it began with, pressed as often *)
(* as the console has worked off; what the call has seen were all the lamps  *)
(* before the last.                                                         *)

AfterPresses(n) == Pressed(call.left.lamp, n)

LampFits ==
  /\ call.pc = "look" =>
       \/ call.tries >= 1 /\ inbox = <<Down, Up>> /\ db.lamp = AfterPresses(call.tries - 1)
       \/ inbox \in {<<>>, <<Up>>} /\ db.lamp = AfterPresses(call.tries)
  /\ call.pc = "press" => inbox = <<>> /\ db.lamp = AfterPresses(call.tries)
  /\ call.pc = "release" =>
       \/ inbox = <<Down>> /\ db.lamp = AfterPresses(call.tries)
       \/ inbox = <<>> /\ db.lamp = AfterPresses(call.tries + 1)
  /\ call.pc \in {"ok", "ValueError"} => inbox = <<>>

SeenNotWanted ==
  call.kind = "toggle_button_to" =>
    /\ call.pc = "look" =>
         call.tries <= 6 /\ \A n \in 0..(call.tries - 1) : AfterPresses(n) # call.want
    /\ call.pc \in {"press", "release"} =>
         call.tries <= 5 /\ \A n \in 0..call.tries : AfterPresses(n) # call.want

SeenAsItWas ==
  call.kind = "toggle_button_from" =>
    /\ call.pc = "look" =>
         call.tries <= 1 /\ (call.tries = 1 => AfterPresses(0) = call.want)
    /\ call.pc \in {"press", "release"} => call.tries = 0 /\ AfterPresses(0) = call.want

ButtonsInv ==
  call.kind \in Buttons /\ Undisturbed =>
    LampFits /\ SeenNotWanted /\ SeenAsItWas /\ ButtonsTellTheTruth

-----------------------------------------------------------------------------
(* Checked settings: whatever is on its way sets the value wanted, so that   *)
(* the value is the one before or what the console makes of that; once all   *)
(* of it is worked off, it is the latter.                                   *)

ValueFits ==
  call.kind \in Checks =>
    /\ call.want \in Data(Width) /\ con.tells \in 1..Width
    /\ con.takes \in [1..Width -> [Values -> Values]] /\ db.value \in Data(con.tells)

ChecksInv ==
  /\ ValueFits
  /\ Setting /\ alone =>
       /\ db.value \in {Taken(call.want), call.left.value}
       /\ con.prompt /\ call.pc # "begin" /\ inbox = <<>> => db.value = Taken(call.want)
       /\ con.prompt /\ call.pc \in {"ok", "AssertionError"} => inbox = <<>>
       /\ CheckedIsInForce

-----------------------------------------------------------------------------
(* The configuration: up to the write it is as others left it, and what is   *)
(* written is that, modified.                                               *)

ConfigsInv ==
  call.kind \in Configs =>
    /\ call.pc \in {"begin", "look"} =>
         /\ DOMAIN db.config = {"main", "extra", "crm", "listen"}
         /\ call.left.config = db.config
    /\ call.pc \in {"check", "ok"} /\ ~call.overlap =>
         /\ DOMAIN call.left.config = {"main", "extra", "crm", "listen"}
         /\ call.read = Modified(call.left.config)
         /\ inbox = <<>> \/ inbox = <<Written(call.read)>>
         /\ inbox = <<>> => db.config = call.read

-----------------------------------------------------------------------------
(* Questions: the signal asked for, or the first of its block.              *)

ReadsInv ==
  call.kind \in Reads =>
    IF call.kind = "get_first_surround_signal"
    THEN /\ call.want \in Nat
         /\ call.at \in {call.want, Floor(call.want)}
         /\ call.pc = "second" /\ alone => InBundle(call.at)
         /\ IsMaster(call.want) => call.pc \in {"begin", "ok"} /\ call.at = call.want
         /\ call.pc = "begin" => IsMaster(call.want)
         /\ ReadsFit
    ELSE /\ call.pc = "second" /\ alone => call.at = db.active
         /\ ReadsFit

ConsoleInv ==
  ConsoleTyped /\ PlacesFit /\ ButtonsInv /\ ChecksInv /\ ConfigsInv /\ ReadsInv

LEMMA PressedUnfolds ==
  ASSUME NEW l
  PROVE  /\ Pressed(l, 0) = l
         /\ \A n \in 0..5 : Pressed(l, n + 1) = con.next[Pressed(l, n)]
<1> DEFINE P1 == con.next[l]
           P2 == con.next[P1]
           P3 == con.next[P2]
           P4 == con.next[P3]
           P5 == con.next[P4]
           P6 == con.next[P5]
           Lamp(k) == CASE k = 0 -> l [] k = 1 -> P1 [] k = 2 -> P2 [] k = 3 -> P3
                        [] k = 4 -> P4 [] k = 5 -> P5 [] k = 6 -> P6
<1>1. Lamp(0) = l /\ \A n \in 0..5 : Lamp(n + 1) = con.next[Lamp(n)]
  <2> HIDE DEF P1, P2, P3, P4, P5, P6
  <2>1. /\ Lamp(0) = l /\ Lamp(1) = P1 /\ Lamp(2) = P2 /\ Lamp(3) = P3
        /\ Lamp(4) = P4 /\ Lamp(5) = P5 /\ Lamp(6) = P6
    OBVIOUS
  <2> HIDE DEF Lamp
  <2>2. /\ Lamp(1) = con.next[Lamp(0)] /\ Lamp(2) = con.next[Lamp(1)]
        /\ Lamp(3) = con.next[Lamp(2)] /\ Lamp(4) = con.next[Lamp(3)]
        /\ Lamp(5) = con.next[Lamp(4)] /\ Lamp(6) = con.next[Lamp(5)]
    BY <2>1 DEF P1, P2, P3, P4, P5, P6
  <2>3. ASSUME NEW n \in 0..5 PROVE Lamp(n + 1) = con.next[Lamp(n)]
    <3>1. n = 0 \/ n = 1 \/ n = 2 \/ n = 3 \/ n = 4 \/ n = 5 OBVIOUS
    <3> QED BY <2>2, <3>1
  <2> QED BY <2>1, <2>3
<1> HIDE DEF Lamp
<1>2. ASSUME NEW m \in 0..6 PROVE Pressed(l, m) = Lamp(m)
  <2> DEFINE Path(f) == f = [k \in 0..m |-> IF k = 0 THEN l ELSE con.next[f[k - 1]]]
             g == CHOOSE f : Path(f)
  <2>1. Path([k \in 0..m |-> Lamp(k)])
    <3> DEFINE w == [k \in 0..m |-> Lamp(k)]
    <3>1. ASSUME NEW k \in 0..m
          PROVE  Lamp(k) = IF k = 0 THEN l ELSE con.next[w[k - 1]]
      <4>1. CASE k = 0 BY <1>1, <4>1
      <4>2. CASE k # 0
        <5>1. k - 1 \in 0..5 /\ k - 1 \in 0..m /\ (k - 1) + 1 = k BY <1>2, <4>2
        <5>2. w[k - 1] = Lamp(k - 1) BY <5>1
        <5>3. Lamp((k - 1) + 1) = con.next[Lamp(k - 1)] BY <1>1, <5>1
        <5> QED BY <4>2, <5>1, <5>2, <5>3
      <4> QED BY <4>1, <4>2
    <3> QED BY <3>1
  <2>2. Path(g) BY <2>1
  <2>3. Pressed(l, m) = g[m] BY DEF Pressed
  <2> HIDE DEF g
  <2>4. \A k \in 0..m : g[k] = IF k = 0 THEN l ELSE con.next[g[k - 1]] BY <2>2
  <2>5. ASSUME NEW k \in 0..5, k + 1 \in 0..m, g[k] = Lamp(k)
        PROVE  g[k + 1] = Lamp(k + 1)
    <3>1. g[k + 1] = con.next[g[(k + 1) - 1]] BY <2>4, <2>5
    <3>2. (k + 1) - 1 = k OBVIOUS
    <3> QED BY <1>1, <2>5, <3>1, <3>2
  <2>6. g[0] = Lamp(0) BY <1>1, <1>2, <2>4
  <2>7. 1 \in 0..m => g[1] = Lamp(1) BY <2>5, <2>6
  <2>8. 2 \in 0..m => g[2] = Lamp(2) BY <2>5, <2>7
  <2>9. 3 \in 0..m => g[3] = Lamp(3) BY <2>5, <2>8
  <2>10. 4 \in 0..m => g[4] = Lamp(4) BY <2>5, <2>9
  <2>11. 5 \in 0..m => g[5] = Lamp(5) BY <2>5, <2>10
  <2>12. 6 \in 0..m => g[6] = Lamp(6) BY <2>5, <2>11
  <2>13. m = 0 \/ m = 1 \/ m = 2 \/ m = 3 \/ m = 4 \/ m = 5 \/ m = 6 BY <1>2
  <2>14. g[m] = Lamp(m)
    BY <2>6, <2>7, <2>8, <2>9, <2>10, <2>11, <2>12, <2>13
  <2> QED BY <2>3, <2>14
<1>3. \A n \in 0..5 : n \in 0..6 /\ n + 1 \in 0..6 OBVIOUS
<1> QED BY <1>1, <1>2, <1>3

-----------------------------------------------------------------------------
(* What every step leaves as it is.                                         *)

LEMMA KindsApart ==
  /\ \A k \in Buttons : k \notin Checks \cup Configs \cup Reads
  /\ \A k \in Checks : k \notin Buttons \cup Configs \cup Reads
  /\ \A k \in Configs : k \notin Buttons \cup Checks \cup Reads
  /\ \A k \in Reads : k \notin Buttons \cup Checks \cup Configs
BY DEF Buttons, Checks, Configs, Reads

SameCall ==
  /\ DOMAIN call' = DOMAIN call /\ call'.kind = call.kind /\ call'.want = call.want

SameRecord == SameCall /\ call'.left = call.left /\ call'.overlap = call.overlap

LEMMA ToMoves ==
  ASSUME ConsoleTyped, NEW pc, To(pc)
  PROVE  /\ SameRecord /\ call'.pc = pc /\ call'.tries = call.tries
         /\ call'.at = call.at /\ call'.read = call.read
BY DEF ConsoleTyped, To, SameRecord, SameCall

LEMMA FailedMoves ==
  ASSUME ConsoleTyped, NEW error, Failed(error)
  PROVE  /\ SameRecord /\ call'.pc \in {error, "begin"} /\ call'.tries \in {call.tries, 1}
         /\ call'.pc # error => call.kind = "set_and_check"
BY ToMoves DEF ConsoleTyped, Failed, SameRecord, SameCall

\* An event worked off: the database keeps its shape.
LEMMA HandleMoves ==
  ASSUME ConsoleTyped, PlacesFit, Handle
  PROVE  /\ DOMAIN db' = DOMAIN db /\ UNCHANGED <<con, call, alone>> /\ inbox' = Tail(inbox)
         /\ \A d : Head(inbox) = Written(d) => db' = [db EXCEPT !.config = d]
         /\ Head(inbox) = Down => db' = [db EXCEPT !.lamp = con.next[@]]
         /\ Head(inbox) = Up => db' = db
         /\ Head(inbox) = SetWanted => db' = [db EXCEPT !.value = Taken(call.want)]
         /\ \/ call.kind \in Buttons /\ Head(inbox) \in {Down, Up}
            \/ call.kind \in Checks /\ Head(inbox) = SetWanted
            \/ call.kind \in Configs /\ \E d : inbox = <<Written(d)>> /\ Head(inbox) = Written(d)
<1>1. inbox # <<>> /\ UNCHANGED <<con, call, alone>> /\ inbox' = Tail(inbox)
  BY DEF Handle
<1>2. \/ call.kind \in Buttons /\ Head(inbox) \in {Down, Up}
      \/ call.kind \in Checks /\ Head(inbox) = SetWanted
      \/ call.kind \in Configs /\ \E d : inbox = <<Written(d)>> /\ Head(inbox) = Written(d)
  <2>1. CASE call.kind \in Buttons BY <1>1, <2>1 DEF PlacesFit
  <2>2. CASE call.kind \in Checks BY <1>1, <2>2 DEF PlacesFit
  <2>3. CASE call.kind \in Configs BY <1>1, <2>3 DEF PlacesFit
  <2>4. CASE call.kind \in Reads BY <1>1, <2>4 DEF PlacesFit
  <2> QED BY <2>1, <2>2, <2>3, <2>4 DEF ConsoleTyped, AllKinds
<1>3. /\ \A d : Head(inbox) = Written(d) => db' = [db EXCEPT !.config = d]
      /\ Head(inbox) = Down => db' = [db EXCEPT !.lamp = con.next[@]]
      /\ Head(inbox) = Up => db' = db
      /\ Head(inbox) = SetWanted => db' = [db EXCEPT !.value = Taken(call.want)]
  BY DEF Handle, Written, Down, Up, SetWanted
<1>4. DOMAIN db' = DOMAIN db BY <1>2, <1>3
<1> QED BY <1>1, <1>2, <1>3, <1>4

\* Others leave the events alone, and what they leave behind is noted.
LEMMA OthersMove ==
  ASSUME ConsoleTyped, Others
  PROVE  /\ DOMAIN db' = DOMAIN db /\ UNCHANGED <<con, inbox>> /\ alone' = FALSE
         /\ call.kind \in Checks => db'.value \in Data(con.tells)
         /\ SameCall /\ call'.left = db' /\ call'.pc = call.pc /\ call'.tries = call.tries
         /\ call'.at = call.at /\ call'.read = call.read
         /\ call'.overlap = (call.overlap \/ call.pc \notin {"begin", "look"})
         /\ call.kind \in Configs => db'.config \in Config
         /\ call.pc \notin Ended \/ inbox # <<>>
<1>1. /\ UNCHANGED <<con, inbox>> /\ alone' = FALSE /\ (call.pc \notin Ended \/ inbox # <<>>)
      /\ call' = [call EXCEPT !.left = db',
                              !.overlap = @ \/ call.pc \notin {"begin", "look"}]
  BY DEF Others
<1>2. /\ SameCall /\ call'.left = db' /\ call'.pc = call.pc /\ call'.tries = call.tries
      /\ call'.at = call.at /\ call'.read = call.read
      /\ call'.overlap = (call.overlap \/ call.pc \notin {"begin", "look"})
  BY <1>1 DEF ConsoleTyped, SameCall
<1>3. /\ DOMAIN db' = DOMAIN db /\ (call.kind \in Configs => db'.config \in Config)
      /\ call.kind \in Checks => db'.value \in Data(con.tells)
  <2>1. CASE call.kind \in Buttons
    <3>1. \E l \in Lamps : db' = [db EXCEPT !.lamp = l] BY <2>1, KindsApart DEF Others
    <3> QED BY <2>1, <3>1, KindsApart
  <2>2. CASE call.kind \in Checks
    <3>1. PICK v \in Data(con.tells) : db' = [db EXCEPT !.value = v]
      BY <2>2, KindsApart DEF Others
    <3>2. DOMAIN db' = DOMAIN db /\ db'.value = v BY <3>1 DEF ConsoleTyped
    <3> QED BY <2>2, <3>2, KindsApart
  <2>3. CASE call.kind \in Configs
    <3>1. PICK c \in Config : db' = [db EXCEPT !.config = c] BY <2>3, KindsApart DEF Others
    <3> QED BY <2>3, <3>1, KindsApart DEF ConsoleTyped
  <2>4. CASE call.kind \in Reads
    <3>1. \/ \E b \in {0, 6, 8} : db' = [db EXCEPT !.bundle = b]
          \/ db' = [db EXCEPT !.active = 3 - @]
      BY <2>4, KindsApart DEF Others
    <3> QED BY <2>4, <3>1, KindsApart
  <2> QED BY <2>1, <2>2, <2>3, <2>4 DEF ConsoleTyped, AllKinds
<1> QED BY <1>1, <1>2, <1>3

\* Everything but the events worked off and what others do leaves the database.
CallActs ==
  \/ SeesLamp \/ SeesOtherLamp \/ Press \/ Release \/ Set \/ SeesValue \/ Refused
  \/ ReadConfig \/ WriteConfig \/ CheckConfig \/ NoAnswer
  \/ KnowsMaster \/ ReadsFormat \/ ReadsIndex \/ ReadsActive \/ ReadsCount

LEMMA PressMoves ==
  ASSUME ConsoleTyped, Press
  PROVE  /\ SameRecord /\ call.pc = "press" /\ call'.pc = "release" /\ call'.tries = call.tries
         /\ inbox' = Append(inbox, Down) /\ UNCHANGED <<con, db, alone>>
BY ToMoves DEF Press, Send, Down

LEMMA ReleaseMoves ==
  ASSUME ConsoleTyped, Release
  PROVE  /\ SameRecord /\ call.pc = "release" /\ call'.pc = "look"
         /\ call'.tries = call.tries + 1
         /\ inbox' = Append(inbox, Up) /\ UNCHANGED <<con, db, alone>>
BY DEF Release, Send, Up, ConsoleTyped, SameRecord, SameCall

LEMMA SetMoves ==
  ASSUME ConsoleTyped, Set
  PROVE  /\ SameRecord /\ Setting /\ call.pc = "begin" /\ call'.pc = "look"
         /\ call'.tries = call.tries
         /\ inbox' = Append(inbox, SetWanted) /\ UNCHANGED <<con, db, alone>>
BY ToMoves DEF Set, Send, SetWanted

LEMMA WriteConfigMoves ==
  ASSUME ConsoleTyped, WriteConfig
  PROVE  /\ SameRecord /\ call.kind \in Configs /\ call.pc = "look"
         /\ call'.pc \in {"check", "ok"} /\ call'.tries = call.tries
         /\ call'.read = Modified(db.config)
         /\ inbox' = Append(inbox, Written(Modified(db.config))) /\ UNCHANGED <<con, db, alone>>
<1> DEFINE m == Modified(db.config)
           pc == IF call.want.do_check THEN "check" ELSE "ok"
<1>1. /\ call' = [call EXCEPT !.pc = pc, !.read = m] /\ call.kind \in Configs /\ call.pc = "look"
      /\ inbox' = Append(inbox, Written(m)) /\ UNCHANGED <<con, db, alone>>
  BY DEF WriteConfig, Send, Written
<1>2. pc \in {"check", "ok"} OBVIOUS
<1> HIDE DEF m, pc
<1>3. /\ DOMAIN call' = DOMAIN call /\ call'.kind = call.kind /\ call'.want = call.want
      /\ call'.left = call.left /\ call'.overlap = call.overlap
      /\ call'.pc = pc /\ call'.read = m /\ call'.tries = call.tries
  BY <1>1 DEF ConsoleTyped
<1> QED BY <1>1, <1>2, <1>3 DEF m, SameRecord, SameCall

LEMMA NoAnswerMoves ==
  ASSUME ConsoleTyped, NoAnswer
  PROVE  /\ SameRecord /\ call.pc \in {"look", "check", "second"}
         /\ call'.pc \in {"ValueError", "TimeoutError", "begin"}
         /\ call'.tries \in {call.tries, 1}
         /\ call.kind # "set_and_check" => call'.pc = "TimeoutError"
         /\ UNCHANGED <<con, db, inbox, alone>>
<1>1. CASE call.kind = "set_and_check"
  <2>1. PICK error \in {"ValueError", "TimeoutError"} : Failed(error) BY <1>1 DEF NoAnswer
  <2> QED BY <1>1, <2>1, FailedMoves DEF NoAnswer
<1>2. CASE call.kind # "set_and_check"
  BY <1>2, ToMoves DEF NoAnswer
<1> QED BY <1>1, <1>2

\* The answers, of which each kind of call has its own.
LEMMA LampMoves ==
  ASSUME ConsoleTyped, SeesLamp \/ SeesOtherLamp
  PROVE  /\ SameRecord /\ call.kind \in Buttons /\ call.pc = "look" /\ Answers
         /\ call'.pc \in {"ok", "ValueError", "press"} /\ call'.tries = call.tries
         /\ UNCHANGED <<con, db, inbox, alone>>
<1>1. PICK pc \in {"ok", "ValueError", "press"} : To(pc) BY DEF SeesLamp, SeesOtherLamp
<1> QED BY <1>1, ToMoves DEF SeesLamp, SeesOtherLamp, Buttons

LEMMA ValueMoves ==
  ASSUME ConsoleTyped, SeesValue
  PROVE  /\ SameRecord /\ call.kind \in Checks /\ call.pc = "look" /\ Answers
         /\ call'.pc \in {"ok", "AssertionError", "begin"} /\ call'.tries \in {call.tries, 1}
         /\ call'.pc = "ok" => Met
         /\ call'.pc = "AssertionError" => ~Met
         /\ UNCHANGED <<con, db, inbox, alone>>
<1>1. CASE Met
  <2>1. To("ok") BY <1>1 DEF SeesValue
  <2> QED BY <1>1, <2>1, ToMoves DEF SeesValue
<1>2. CASE ~Met
  <2>1. Failed("AssertionError") BY <1>2 DEF SeesValue
  <2> QED BY <1>2, <2>1, FailedMoves DEF SeesValue
<1> QED BY <1>1, <1>2

LEMMA ConfigMoves ==
  ASSUME ConsoleTyped, Refused \/ ReadConfig \/ CheckConfig
  PROVE  /\ SameRecord /\ call.kind \in Configs /\ call'.tries = call.tries
         /\ call'.read = call.read
         /\ \/ call.pc = "begin" /\ call'.pc \in {"ValueError", "look"}
            \/ call.pc = "check" /\ call'.pc \in {"ok", "AssertionError"}
         /\ UNCHANGED <<con, db, inbox, alone>>
<1>1. CASE Refused BY <1>1, ToMoves DEF Refused, Configs
<1>2. CASE ReadConfig BY <1>2, ToMoves DEF ReadConfig
<1>3. CASE CheckConfig
  <2>1. PICK pc \in {"ok", "AssertionError"} : To(pc) BY <1>3 DEF CheckConfig
  <2> QED BY <1>3, <2>1, ToMoves DEF CheckConfig
<1> QED BY <1>1, <1>2, <1>3

LEMMA ReadsMove ==
  ASSUME ConsoleTyped, KnowsMaster \/ ReadsFormat \/ ReadsIndex \/ ReadsActive \/ ReadsCount
  PROVE  /\ SameRecord /\ call.kind \in Reads /\ call'.tries = call.tries
         /\ call'.pc \in {"second", "look", "ok"}
         /\ UNCHANGED <<con, db, inbox, alone>>
<1> USE DEF ConsoleTyped, SameRecord, SameCall, Reads
<1>1. CASE ReadsFormat
  <2>1. CASE InBundle(call.at) BY <1>1, <2>1, ToMoves DEF ReadsFormat
  <2>2. CASE ~InBundle(call.at) /\ call.at # Floor(call.at)
    <3>1. call' = [call EXCEPT !.at = Floor(@)] BY <1>1, <2>2 DEF ReadsFormat
    <3> QED BY <1>1, <3>1 DEF ReadsFormat
  <2>3. CASE ~InBundle(call.at) /\ call.at = Floor(call.at)
    <3>1. call' = [call EXCEPT !.pc = "ok", !.read = call.at] BY <1>1, <2>3 DEF ReadsFormat
    <3> QED BY <1>1, <3>1 DEF ReadsFormat
  <2> QED BY <2>1, <2>2, <2>3
<1>2. CASE ReadsIndex BY <1>2 DEF ReadsIndex
<1>3. CASE ReadsActive BY <1>3 DEF ReadsActive
<1>4. CASE ReadsCount BY <1>4 DEF ReadsCount
<1>5. CASE KnowsMaster BY <1>5 DEF KnowsMaster
<1> QED BY <1>1, <1>2, <1>3, <1>4, <1>5

\* No step changes what a call is about, and only others change what it began with.
LEMMA FrameKeeps ==
  ASSUME ConsoleTyped, PlacesFit, Handle \/ Others \/ CallActs
  PROVE  /\ ConsoleTyped' /\ con' = con /\ SameCall
         /\ Others \/ (SameRecord /\ alone' = alone)
         /\ Handle \/ Others \/ db' = db
<1>1. CASE Handle
  <2>1. UNCHANGED <<con, call, alone>> /\ DOMAIN db' = DOMAIN db BY <1>1, HandleMoves
  <2> QED BY <1>1, <2>1 DEF ConsoleTyped, SameRecord, SameCall
<1>2. CASE Others
  <2>1. /\ DOMAIN db' = DOMAIN db /\ con' = con /\ alone' = FALSE
        /\ SameCall /\ call'.tries = call.tries
        /\ call'.overlap = (call.overlap \/ call.pc \notin {"begin", "look"})
    BY <1>2, OthersMove
  <2> QED BY <1>2, <2>1 DEF ConsoleTyped, SameCall
<1>3. CASE CallActs
  <2>1. /\ SameRecord /\ UNCHANGED <<con, db, alone>>
        /\ call'.tries \in {call.tries, 1, call.tries + 1}
    BY <1>3, PressMoves, ReleaseMoves, SetMoves, WriteConfigMoves, NoAnswerMoves, LampMoves,
       ValueMoves, ConfigMoves, ReadsMove DEF CallActs
  <2> QED BY <2>1 DEF ConsoleTyped, SameRecord, SameCall
<1> QED BY <1>1, <1>2, <1>3

LEMMA PlacesKeep ==
  ASSUME ConsoleTyped, PlacesFit, Handle \/ Others \/ CallActs
  PROVE  PlacesFit'
<1>1. SameCall /\ call'.kind = call.kind /\ call'.want = call.want
  BY FrameKeeps DEF SameCall
<1>2. SetWanted' = SetWanted BY <1>1 DEF SetWanted
<1>3. CASE Handle
  <2>1. call' = call /\ inbox' = Tail(inbox) /\ inbox # <<>> BY <1>3, HandleMoves DEF Handle
  <2>2. \A d : Tail(<<d>>) = <<>> OBVIOUS
  <2>3. call.kind \in Configs => inbox' = <<>>
    <3> DEFINE e == Written(inbox[1].data)
    <3>1. call.kind \in Configs => inbox = <<e>> BY <2>1 DEF PlacesFit
    <3> HIDE DEF e
    <3> QED BY <2>1, <2>2, <3>1
  <2>4. call.kind \in Buttons => inbox' \in Seq({Down, Up}) BY <2>1 DEF PlacesFit
  <2>5. call.kind \in Checks => inbox' \in Seq({SetWanted}) BY <2>1 DEF PlacesFit
  <2>6. call.kind \notin Reads BY <2>1 DEF PlacesFit
  <2> QED BY <1>2, <2>1, <2>3, <2>4, <2>5, <2>6 DEF PlacesFit
<1>4. CASE Others
  <2>1. call'.pc = call.pc /\ inbox' = inbox BY <1>4, OthersMove
  <2> QED BY <1>1, <1>2, <2>1 DEF PlacesFit
<1>5. CASE Press \/ Release
  <2>1. call.kind \in Buttons /\ call'.pc \in {"release", "look"}
    BY <1>5, PressMoves, ReleaseMoves DEF PlacesFit
  <2>2. inbox' \in Seq({Down, Up})
    <3>1. inbox \in Seq({Down, Up}) BY <2>1 DEF PlacesFit
    <3> QED BY <1>5, <3>1, PressMoves, ReleaseMoves
  <2> QED BY <1>1, <2>1, <2>2, KindsApart DEF PlacesFit
<1>6. CASE Set
  <2>1. call.kind \in Checks /\ call'.pc = "look" BY <1>6, SetMoves DEF Setting, Checks
  <2>2. inbox' \in Seq({SetWanted})
    <3>1. inbox \in Seq({SetWanted}) BY <2>1 DEF PlacesFit
    <3> QED BY <1>6, <3>1, SetMoves
  <2> QED BY <1>1, <1>2, <2>1, <2>2, KindsApart DEF PlacesFit
<1>7. CASE WriteConfig
  <2> DEFINE m == Modified(db.config)
  <2>1. call.kind \in Configs /\ call.pc = "look" /\ call'.pc \in {"check", "ok"}
        /\ inbox' = Append(inbox, Written(m))
    BY <1>7, WriteConfigMoves
  <2> HIDE DEF m
  <2>2. inbox = <<>> BY <2>1 DEF PlacesFit
  <2>3. inbox' = <<Written(m)>> BY <2>1, <2>2
  <2>4. inbox'[1].data = m BY <2>3 DEF Written
  <2> QED BY <1>1, <2>1, <2>3, <2>4, KindsApart DEF PlacesFit
<1>8. CASE SeesLamp \/ SeesOtherLamp
  <2>1. call.kind \in Buttons /\ inbox' = inbox /\ call'.pc \in {"ok", "ValueError", "press"}
    BY <1>8, LampMoves
  <2> QED BY <1>1, <2>1, KindsApart DEF PlacesFit
<1>9. CASE SeesValue
  <2>1. call.kind \in Checks /\ inbox' = inbox /\ call'.pc \in {"ok", "AssertionError", "begin"}
    BY <1>9, ValueMoves
  <2> QED BY <1>1, <1>2, <2>1, KindsApart DEF PlacesFit
<1>10. CASE Refused \/ ReadConfig \/ CheckConfig
  <2>1. /\ call.kind \in Configs /\ inbox' = inbox
        /\ call'.pc \in {"ok", "AssertionError", "look", "ValueError"}
        /\ call'.pc = "look" => call.pc = "begin"
    BY <1>10, ConfigMoves
  <2> QED BY <1>1, <2>1, KindsApart DEF PlacesFit
<1>11. CASE KnowsMaster \/ ReadsFormat \/ ReadsIndex \/ ReadsActive \/ ReadsCount
  <2>1. call.kind \in Reads /\ inbox' = inbox /\ call'.pc \in {"second", "look", "ok"}
    BY <1>11, ReadsMove
  <2> QED BY <1>1, <2>1, KindsApart DEF PlacesFit
<1>12. CASE NoAnswer
  <2>1. /\ inbox' = inbox /\ call'.pc \in {"ValueError", "TimeoutError", "begin"}
        /\ call'.pc = "begin" => call.kind \in Checks
    BY <1>12, NoAnswerMoves DEF Checks
  <2> QED BY <1>1, <1>2, <2>1, KindsApart DEF PlacesFit
<1> QED
  BY <1>3, <1>4, <1>5, <1>6, <1>7, <1>8, <1>9, <1>10, <1>11, <1>12 DEF CallActs

-----------------------------------------------------------------------------
(* Buttons.                                                                 *)

\* A call that ended, with whatever it came to: the rest of its invariant is about
\* where it goes on.
LEMMA ButtonEnds ==
  ASSUME call'.pc \in {"ok", "ValueError", "TimeoutError"},
         call'.pc # "TimeoutError" => inbox' = <<>>,
         ButtonsTellTheTruth'
  PROVE  (LampFits /\ SeenNotWanted /\ SeenAsItWas /\ ButtonsTellTheTruth)'
BY DEF LampFits, SeenNotWanted, SeenAsItWas

\* A call that goes on has nothing to answer for yet.
LEMMA ButtonGoesOn ==
  ASSUME call'.pc \notin {"ok", "ValueError"}  PROVE ButtonsTellTheTruth'
BY DEF ButtonsTellTheTruth, ToggledIsThere, ToggleErrorsAreTrue

\* An event of a press worked off: down moves the lamp on, up does nothing.
LEMMA ButtonHandleKeeps ==
  ASSUME ConsoleTyped, PlacesFit, call.kind \in Buttons, Undisturbed,
         LampFits, SeenNotWanted, SeenAsItWas, ButtonsTellTheTruth, Handle
  PROVE  (LampFits /\ SeenNotWanted /\ SeenAsItWas /\ ButtonsTellTheTruth)'
<1>1. /\ UNCHANGED <<con, call, alone>> /\ inbox' = Tail(inbox) /\ inbox # <<>>
      /\ Head(inbox) = Down => db' = [db EXCEPT !.lamp = con.next[@]]
      /\ Head(inbox) = Up => db' = db
  BY HandleMoves DEF Handle
<1>2. Down # Up BY DEF Down, Up
<1>3. ASSUME NEW n PROVE AfterPresses(n)' = AfterPresses(n)
  BY <1>1 DEF AfterPresses, Pressed
<1>4. SeenNotWanted' /\ SeenAsItWas' BY <1>1, <1>3 DEF SeenNotWanted, SeenAsItWas
<1>5. call.pc \notin {"press", "ok", "ValueError"} BY <1>1 DEF LampFits
<1>6. ButtonsTellTheTruth' BY <1>1, <1>5, ButtonGoesOn
<1>7. call.tries \in Nat BY DEF ConsoleTyped
<1>8. call.pc \in {"look", "release"} => call.tries <= 6
  BY <1>7 DEF SeenNotWanted, SeenAsItWas, Buttons
<1>9. call.pc = "release" => call.tries <= 5
  BY <1>7 DEF SeenNotWanted, SeenAsItWas, Buttons
<1>10. ASSUME NEW e, NEW f
       PROVE  Head(<<e>>) = e /\ Tail(<<e>>) = <<>> /\ Head(<<e, f>>) = e /\ Tail(<<e, f>>) = <<f>>
  OBVIOUS
<1>11. db.lamp = AfterPresses(call.tries - 1) /\ call.tries \in 1..6
         => con.next[db.lamp] = AfterPresses(call.tries)
  BY <1>7, PressedUnfolds DEF AfterPresses
<1>12. db.lamp = AfterPresses(call.tries) /\ call.tries \in 0..5
         => con.next[db.lamp] = AfterPresses(call.tries + 1)
  BY PressedUnfolds DEF AfterPresses
<1>13. Head(inbox) = Down => db'.lamp = con.next[db.lamp] BY <1>1 DEF ConsoleTyped
<1>14. LampFits'
  <2>1. CASE call.pc = "look"
    <3>1. CASE call.tries >= 1 /\ inbox = <<Down, Up>> /\ db.lamp = AfterPresses(call.tries - 1)
      <4>1. Head(inbox) = Down /\ inbox' = <<Up>> BY <1>1, <1>10, <3>1
      <4>2. db'.lamp = AfterPresses(call.tries) BY <1>7, <1>8, <1>11, <1>13, <2>1, <3>1, <4>1
      <4> QED BY <1>1, <1>3, <2>1, <4>1, <4>2 DEF LampFits
    <3>2. CASE inbox = <<Up>> /\ db.lamp = AfterPresses(call.tries)
      <4>1. db' = db /\ inbox' = <<>> BY <1>1, <1>2, <1>10, <3>2
      <4> QED BY <1>1, <1>3, <2>1, <3>2, <4>1 DEF LampFits
    <3> QED BY <1>1, <2>1, <3>1, <3>2 DEF LampFits
  <2>2. CASE call.pc = "release"
    <3>1. inbox = <<Down>> /\ db.lamp = AfterPresses(call.tries)
      BY <1>1, <2>2 DEF LampFits
    <3>2. Head(inbox) = Down /\ inbox' = <<>> BY <1>1, <1>10, <3>1
    <3>3. db'.lamp = AfterPresses(call.tries + 1)
      BY <1>7, <1>9, <1>12, <1>13, <2>2, <3>1, <3>2
    <3> QED BY <1>1, <1>3, <2>2, <3>2, <3>3 DEF LampFits
  <2>3. CASE call.pc \notin {"look", "release"} BY <1>1, <1>5, <2>3 DEF LampFits
  <2> QED BY <2>1, <2>2, <2>3
<1> QED BY <1>4, <1>6, <1>14

LEMMA AppendToOne ==
  ASSUME NEW e, NEW f  PROVE Append(<<e>>, f) = <<e, f>>
<1> DEFINE s == Append(<<e>>, f)
           t == <<e, f>>
<1>1. /\ s \in Seq({e, f}) /\ Len(s) = 2 /\ s[1] = e /\ s[2] = f
      /\ t \in Seq({e, f}) /\ Len(t) = 2 /\ t[1] = e /\ t[2] = f
  OBVIOUS
<1> HIDE DEF s, t
<1>2. \A u \in Seq({e, f}) : u = [i \in 1..Len(u) |-> u[i]] OBVIOUS
<1>3. s = [i \in 1..2 |-> s[i]] /\ t = [i \in 1..2 |-> t[i]] BY <1>1, <1>2
<1>4. \A i \in 1..2 : s[i] = t[i]
  <2>1. \A i \in 1..2 : i = 1 \/ i = 2 OBVIOUS
  <2> QED BY <1>1, <2>1
<1>5. [i \in 1..2 |-> s[i]] = [i \in 1..2 |-> t[i]] BY <1>4
<1>6. s = t BY <1>3, <1>5
<1> QED BY <1>6 DEF s, t

\* A press and its release.
LEMMA ButtonPressKeeps ==
  ASSUME ConsoleTyped, PlacesFit, call.kind \in Buttons, Undisturbed,
         LampFits, SeenNotWanted, SeenAsItWas, ButtonsTellTheTruth, Press \/ Release
  PROVE  (LampFits /\ SeenNotWanted /\ SeenAsItWas /\ ButtonsTellTheTruth)'
<1>1. /\ SameRecord /\ UNCHANGED <<con, db, alone>> /\ call'.pc \in {"release", "look"}
      /\ call'.kind = call.kind /\ call'.want = call.want
  BY PressMoves, ReleaseMoves DEF SameRecord, SameCall
<1>2. ASSUME NEW n PROVE AfterPresses(n)' = AfterPresses(n)
  BY <1>1 DEF AfterPresses, Pressed, SameRecord
<1>3. ButtonsTellTheTruth' BY <1>1, ButtonGoesOn
<1>4. call.tries \in Nat BY DEF ConsoleTyped
<1>5. CASE Press
  <2>1. /\ call.pc = "press" /\ call'.pc = "release" /\ call'.tries = call.tries
        /\ inbox' = Append(inbox, Down)
    BY <1>5, PressMoves
  <2>2. inbox = <<>> /\ db.lamp = AfterPresses(call.tries) BY <2>1 DEF LampFits
  <2>3. inbox' = <<Down>> BY <2>1, <2>2
  <2>4. LampFits' BY <1>1, <1>2, <2>1, <2>2, <2>3 DEF LampFits
  <2>5. SeenNotWanted' /\ SeenAsItWas' BY <1>1, <1>2, <2>1 DEF SeenNotWanted, SeenAsItWas
  <2> QED BY <1>3, <2>4, <2>5
<1>6. CASE Release
  <2>1. /\ call.pc = "release" /\ call'.pc = "look" /\ call'.tries = call.tries + 1
        /\ inbox' = Append(inbox, Up)
    BY <1>6, ReleaseMoves
  <2>2. LampFits'
    <3>1. CASE inbox = <<Down>> /\ db.lamp = AfterPresses(call.tries)
      <4>1. inbox' = <<Down, Up>> BY <2>1, <3>1, AppendToOne
      <4>2. call'.tries >= 1 /\ call'.tries - 1 = call.tries BY <1>4, <2>1
      <4> QED BY <1>1, <1>2, <2>1, <3>1, <4>1, <4>2 DEF LampFits
    <3>2. CASE inbox = <<>> /\ db.lamp = AfterPresses(call.tries + 1)
      <4>1. inbox' = <<Up>> BY <2>1, <3>2
      <4> QED BY <1>1, <1>2, <2>1, <3>2, <4>1 DEF LampFits
    <3> QED BY <2>1, <3>1, <3>2 DEF LampFits
  <2>3. SeenNotWanted' BY <1>1, <1>2, <1>4, <2>1 DEF SeenNotWanted
  <2>4. SeenAsItWas' BY <1>1, <1>2, <1>4, <2>1 DEF SeenAsItWas
  <2> QED BY <1>3, <2>2, <2>3, <2>4
<1> QED BY <1>5, <1>6

\* The lamp is looked at: all of the presses have been worked off.
LEMMA ButtonLookKeeps ==
  ASSUME ConsoleTyped, PlacesFit, call.kind \in Buttons, Undisturbed,
         LampFits, SeenNotWanted, SeenAsItWas, SeesLamp \/ SeesOtherLamp
  PROVE  (LampFits /\ SeenNotWanted /\ SeenAsItWas /\ ButtonsTellTheTruth)'
<1>1. /\ SameRecord /\ UNCHANGED <<con, db, inbox, alone>>
      /\ call.pc = "look" /\ Answers /\ call'.tries = call.tries
      /\ call'.pc \in {"ok", "ValueError", "press"}
      /\ call'.kind = call.kind /\ call'.want = call.want /\ call'.left = call.left
  BY LampMoves DEF SameRecord, SameCall
<1>2. inbox = <<>> BY <1>1 DEF Answers, Undisturbed
<1>3. db.lamp = AfterPresses(call.tries) BY <1>1, <1>2 DEF LampFits
<1>4. ASSUME NEW n PROVE AfterPresses(n)' = AfterPresses(n)
  BY <1>1 DEF AfterPresses, Pressed
<1>5. call.tries \in Nat BY DEF ConsoleTyped
<1>6. CASE call.kind = "toggle_button_to"
  <2>1. SeesLamp BY <1>6 DEF SeesOtherLamp
  <2>2. \/ db.lamp = call.want /\ call'.pc = "ok"
        \/ db.lamp # call.want /\ call.tries > 5 /\ call'.pc = "ValueError"
        \/ db.lamp # call.want /\ ~(call.tries > 5) /\ call'.pc = "press"
    BY <2>1, ToMoves DEF SeesLamp
  <2>3. call.tries <= 6 /\ \A n \in 0..(call.tries - 1) : AfterPresses(n) # call.want
    BY <1>1, <1>6 DEF SeenNotWanted
  <2>4. CASE db.lamp = call.want /\ call'.pc = "ok"
    <3>1. ButtonsTellTheTruth'
      BY <1>1, <1>6, <2>4 DEF ButtonsTellTheTruth, ToggledIsThere, ToggleErrorsAreTrue
    <3> QED BY <1>1, <1>2, <2>4, <3>1, ButtonEnds
  <2>5. CASE db.lamp # call.want /\ call.tries > 5 /\ call'.pc = "ValueError"
    <3>1. call.tries = 6 BY <1>5, <2>3, <2>5
    <3>2. \A n \in 0..6 : AfterPresses(n) # call.want BY <1>3, <2>3, <2>5, <3>1
    <3>3. ButtonsTellTheTruth'
      <4>1. \A n \in 0..6 : AfterPresses(n)' # call'.want BY <1>1, <1>4, <3>2
      <4> QED BY <1>1, <1>6, <2>5, <4>1
              DEF ButtonsTellTheTruth, ToggledIsThere, ToggleErrorsAreTrue, AfterPresses
    <3> QED BY <1>1, <1>2, <2>5, <3>3, ButtonEnds
  <2>6. CASE db.lamp # call.want /\ ~(call.tries > 5) /\ call'.pc = "press"
    <3>1. LampFits' BY <1>1, <1>2, <1>3, <1>4, <2>6 DEF LampFits
    <3>2. call.tries <= 5 /\ \A n \in 0..call.tries : AfterPresses(n) # call.want
      BY <1>3, <1>5, <2>3, <2>6
    <3>3. SeenNotWanted' BY <1>1, <1>4, <2>6, <3>2 DEF SeenNotWanted
    <3>4. SeenAsItWas' BY <1>1, <1>6 DEF SeenAsItWas
    <3> QED BY <2>6, <3>1, <3>3, <3>4, ButtonGoesOn
  <2> QED BY <2>2, <2>4, <2>5, <2>6
<1>7. CASE call.kind = "toggle_button_from"
  <2>1. SeesOtherLamp BY <1>7 DEF SeesLamp
  <2>2. \/ db.lamp # call.want /\ call'.pc = "ok"
        \/ db.lamp = call.want /\ call.tries > 0 /\ call'.pc = "ValueError"
        \/ db.lamp = call.want /\ ~(call.tries > 0) /\ call'.pc = "press"
    BY <2>1, ToMoves DEF SeesOtherLamp
  <2>3. call.tries <= 1 /\ (call.tries = 1 => AfterPresses(0) = call.want)
    BY <1>1, <1>7 DEF SeenAsItWas
  <2>4. CASE db.lamp # call.want /\ call'.pc = "ok"
    <3>1. ButtonsTellTheTruth'
      BY <1>1, <1>7, <2>4 DEF ButtonsTellTheTruth, ToggledIsThere, ToggleErrorsAreTrue
    <3> QED BY <1>1, <1>2, <2>4, <3>1, ButtonEnds
  <2>5. CASE db.lamp = call.want /\ call.tries > 0 /\ call'.pc = "ValueError"
    <3>1. call.tries = 1 BY <1>5, <2>3, <2>5
    <3>2. AfterPresses(0) = call.want /\ AfterPresses(1) = call.want
      BY <1>3, <2>3, <2>5, <3>1
    <3>3. AfterPresses(0 + 1) = con.next[AfterPresses(0)] BY PressedUnfolds DEF AfterPresses
    <3>4. con.next[call.want] = call.want BY <3>2, <3>3
    <3>5. ButtonsTellTheTruth'
      BY <1>1, <1>7, <2>5, <3>4 DEF ButtonsTellTheTruth, ToggledIsThere, ToggleErrorsAreTrue
    <3> QED BY <1>1, <1>2, <2>5, <3>5, ButtonEnds
  <2>6. CASE db.lamp = call.want /\ ~(call.tries > 0) /\ call'.pc = "press"
    <3>1. LampFits' BY <1>1, <1>2, <1>3, <1>4, <2>6 DEF LampFits
    <3>2. call.tries = 0 /\ AfterPresses(0) = call.want
      <4>1. call.tries = 0 BY <1>5, <2>6
      <4>2. AfterPresses(call.tries) = call.want BY <1>3, <2>6
      <4> QED BY <4>1, <4>2
    <3>3. SeenAsItWas' BY <1>1, <1>4, <2>6, <3>2 DEF SeenAsItWas
    <3>4. SeenNotWanted' BY <1>1, <1>7 DEF SeenNotWanted
    <3> QED BY <2>6, <3>1, <3>3, <3>4, ButtonGoesOn
  <2> QED BY <2>2, <2>4, <2>5, <2>6
<1> QED BY <1>6, <1>7 DEF Buttons

LEMMA ButtonsKeep ==
  ASSUME ConsoleTyped, PlacesFit, ButtonsInv, Handle \/ Others \/ CallActs
  PROVE  ButtonsInv'
<1> SUFFICES ASSUME call'.kind \in Buttons, Undisturbed'
             PROVE  (LampFits /\ SeenNotWanted /\ SeenAsItWas /\ ButtonsTellTheTruth)'
  BY DEF ButtonsInv
<1>1. ~Others
  <2>1. Others => alone' = FALSE BY OthersMove
  <2> QED BY <2>1 DEF Undisturbed
<1>2. con' = con /\ alone' = alone /\ call'.kind = call.kind
  BY <1>1, FrameKeeps DEF SameRecord, SameCall
<1>3. Undisturbed /\ call.kind \in Buttons BY <1>2 DEF Undisturbed
<1>4. LampFits /\ SeenNotWanted /\ SeenAsItWas /\ ButtonsTellTheTruth
  BY <1>3 DEF ButtonsInv
<1>5. CASE Handle BY <1>3, <1>4, <1>5, ButtonHandleKeeps
<1>6. CASE Press \/ Release BY <1>3, <1>4, <1>6, ButtonPressKeeps
<1>7. CASE SeesLamp \/ SeesOtherLamp BY <1>3, <1>4, <1>7, ButtonLookKeeps
<1>8. CASE NoAnswer
  <2>1. call'.pc = "TimeoutError" BY <1>3, <1>8, NoAnswerMoves DEF Buttons
  <2> QED BY <2>1, ButtonEnds, ButtonGoesOn
<1>9. ~(\/ Set \/ SeesValue \/ Refused \/ ReadConfig \/ WriteConfig \/ CheckConfig
        \/ KnowsMaster \/ ReadsFormat \/ ReadsIndex \/ ReadsActive \/ ReadsCount)
  <2>1. Set => call.kind \in Checks BY SetMoves DEF Setting, Checks
  <2> QED BY <1>3, <2>1, ValueMoves, ConfigMoves, WriteConfigMoves, ReadsMove, KindsApart
<1> QED BY <1>1, <1>5, <1>6, <1>7, <1>8, <1>9 DEF CallActs

-----------------------------------------------------------------------------
(* Checked settings.                                                        *)

LEMMA DataTold ==
  ASSUME NEW n \in Nat, NEW data \in Data(n)
  PROVE  DOMAIN data = 1..n /\ Len(data) = n
<1>1. data \in Seq(Values) /\ DOMAIN data = 1..n BY DEF Data
<1>2. Len(data) \in Nat /\ DOMAIN data = 1..Len(data) BY <1>1
<1>3. n \in 1..Len(data) \/ n = 0 BY <1>1, <1>2
<1>4. Len(data) \in 1..n \/ Len(data) = 0 BY <1>1, <1>2
<1>5. n = 0 => Len(data) = 0
  <2>1. 1 \in 1..Len(data) \/ Len(data) = 0 BY <1>2
  <2>2. 1 \notin 1..0 OBVIOUS
  <2> QED BY <1>1, <1>2, <2>1, <2>2
<1>6. Len(data) = 0 => n = 0
  <2>1. 1 \in 1..n \/ n = 0 OBVIOUS
  <2>2. 1 \notin 1..0 OBVIOUS
  <2> QED BY <1>1, <1>2, <2>1, <2>2
<1> QED BY <1>1, <1>2, <1>3, <1>4, <1>5, <1>6

LEMMA TakenIsTold ==
  ASSUME ValueFits, call.kind \in Checks
  PROVE  Taken(call.want) \in Data(con.tells)
<1>1. /\ call.want \in Data(Width) /\ con.tells \in 1..Width /\ Width \in Nat
      /\ con.takes \in [1..Width -> [Values -> Values]]
  BY McxAssumption DEF ValueFits
<1>2. ASSUME NEW i \in 1..con.tells PROVE con.takes[i][call.want[i]] \in Values
  <2>1. i \in 1..Width BY <1>1
  <2>2. con.takes[i] \in [Values -> Values] /\ call.want[i] \in Values BY <1>1, <2>1 DEF Data
  <2> QED BY <2>2
<1> QED BY <1>2 DEF Taken, Data

\* A check of a setting looks at all the fields the console tells of.
LEMMA MetIsGood ==
  ASSUME ValueFits, Setting
  PROVE  Met <=> Kept(db.value) = IF call.kind = "set_and_check" THEN DOMAIN db.value ELSE {}
<1>1. call.kind \in Checks BY DEF Setting, Checks
<1>2. con.tells \in Nat /\ db.value \in Data(con.tells)
  BY <1>1, McxAssumption DEF ValueFits
<1>3. Compared = DOMAIN db.value BY <1>2, DataTold DEF Compared
<1>4. CASE call.kind = "set_and_check" BY <1>3, <1>4 DEF Met, Differs, Kept
<1>5. CASE call.kind = "set_and_check_not" BY <1>3, <1>5 DEF Met, Differs, Kept
<1> QED BY <1>4, <1>5 DEF Setting

LEMMA ValueFitsKeeps ==
  ASSUME ConsoleTyped, PlacesFit, ValueFits, Handle \/ Others \/ CallActs
  PROVE  ValueFits'
<1>1. con' = con /\ call'.kind = call.kind /\ call'.want = call.want
  BY FrameKeeps DEF SameCall
<1> SUFFICES ASSUME call.kind \in Checks  PROVE ValueFits'
  BY <1>1 DEF ValueFits
<1>2. db'.value \in Data(con.tells)
  <2>1. CASE Handle
    <3>1. db' = [db EXCEPT !.value = Taken(call.want)] BY <2>1, HandleMoves, KindsApart
    <3>2. db'.value = Taken(call.want) BY <3>1 DEF ConsoleTyped
    <3> QED BY <3>2, TakenIsTold
  <2>2. CASE Others BY <2>2, OthersMove
  <2>3. CASE CallActs /\ ~Handle /\ ~Others BY <2>3, FrameKeeps DEF ValueFits
  <2> QED BY <2>1, <2>2, <2>3
<1> QED BY <1>1, <1>2 DEF ValueFits

LEMMA ChecksKeep ==
  ASSUME ConsoleTyped, PlacesFit, ChecksInv, Handle \/ Others \/ CallActs
  PROVE  ChecksInv'
<1>0. ValueFits /\ ValueFits' BY ValueFitsKeeps DEF ChecksInv
<1>1. SameCall /\ con' = con /\ call'.kind = call.kind /\ call'.want = call.want
  BY FrameKeeps DEF SameCall
<1>2. Setting' = Setting BY <1>1 DEF Setting
<1> SUFFICES ASSUME Setting, alone'  PROVE ChecksInv'
  BY <1>0, <1>2 DEF ChecksInv
<1>3. ~Others
  <2>1. Others => alone' = FALSE BY OthersMove
  <2> QED BY <2>1
<1>4. alone /\ call'.left = call.left BY <1>3, FrameKeeps DEF SameRecord
<1>5. call.kind \in Checks /\ call.kind \notin Buttons \cup Configs \cup Reads
  BY KindsApart DEF Setting, Checks
<1> DEFINE taken == Taken(call.want)
           good(data) == Kept(data) = IF call.kind = "set_and_check" THEN DOMAIN data ELSE {}
           told == {taken} \cup (IF con.prompt THEN {} ELSE {call.left.value})
<1>6. /\ db.value \in {taken, call.left.value}
      /\ con.prompt /\ call.pc # "begin" /\ inbox = <<>> => db.value = taken
      /\ con.prompt /\ call.pc \in {"ok", "AssertionError"} => inbox = <<>>
      /\ call.pc = "ok" => \E data \in told : good(data)
      /\ call.pc = "AssertionError" => \E data \in told : ~good(data)
  BY <1>4 DEF ChecksInv, CheckedIsInForce, MayHaveTold
<1>7. taken' = taken BY <1>1 DEF Taken
<1> HIDE DEF taken
<1>8. told' = told BY <1>1, <1>4, <1>7
<1>9. \A data : good(data)' = good(data) BY <1>1 DEF Kept
<1> HIDE DEF good, told
<1> SUFFICES /\ db'.value \in {taken, call.left.value}
             /\ con.prompt /\ call'.pc # "begin" /\ inbox' = <<>> => db'.value = taken
             /\ con.prompt /\ call'.pc \in {"ok", "AssertionError"} => inbox' = <<>>
             /\ call'.pc = "ok" => \E data \in told : good(data)
             /\ call'.pc = "AssertionError" => \E data \in told : ~good(data)
  <2>1. taken' = Taken(call.want)' /\ told' = MayHaveTold' BY DEF taken, told, MayHaveTold
  <2>2. (\E data \in told : good(data)) => \E data \in MayHaveTold' : good(data)'
    BY <1>8, <1>9, <2>1
  <2>3. (\E data \in told : ~good(data)) => \E data \in MayHaveTold' : ~good(data)'
    BY <1>8, <1>9, <2>1
  <2>4. CheckedIsInForce' BY <1>1, <1>7, <2>1, <2>2, <2>3 DEF CheckedIsInForce, good
  <2> QED BY <1>0, <1>1, <1>4, <1>7, <2>1, <2>4 DEF ChecksInv
<1>10. CASE Handle
  <2>1. /\ call' = call /\ inbox # <<>>
        /\ db' = [db EXCEPT !.value = Taken(call.want)]
    BY <1>5, <1>10, HandleMoves DEF Handle
  <2>2. db'.value = taken BY <2>1 DEF ConsoleTyped, taken
  <2> QED BY <1>6, <2>1, <2>2
<1>11. CASE Set
  <2>1. /\ call'.pc = "look" /\ inbox' = Append(inbox, SetWanted) /\ db' = db
    BY <1>11, SetMoves
  <2>2. inbox' # <<>>
    <3>1. inbox \in Seq({SetWanted}) BY <1>5 DEF PlacesFit
    <3> QED BY <2>1, <3>1
  <2> QED BY <1>6, <2>1, <2>2
<1>12. CASE SeesValue
  <2>1. /\ call.pc = "look" /\ Answers /\ UNCHANGED <<con, db, inbox, alone>>
        /\ call'.pc \in {"ok", "AssertionError", "begin"}
        /\ call'.pc = "ok" => Met
        /\ call'.pc = "AssertionError" => ~Met
    BY <1>12, ValueMoves
  <2>2. con.prompt => inbox = <<>> /\ db.value = taken
    BY <1>6, <2>1 DEF Answers
  <2>3. db.value \in told BY <1>6, <2>2 DEF told
  <2>4. Met <=> good(db.value) BY <1>0, MetIsGood DEF good
  <2> QED BY <1>6, <2>1, <2>2, <2>3, <2>4
<1>13. CASE NoAnswer
  <2>1. /\ UNCHANGED <<con, db, inbox, alone>> /\ call.pc # "begin"
        /\ call'.pc \in {"ValueError", "TimeoutError", "begin"}
    BY <1>13, NoAnswerMoves
  <2> QED BY <1>6, <2>1
<1>14. ~(\/ SeesLamp \/ SeesOtherLamp \/ Press \/ Release \/ Refused \/ ReadConfig
         \/ WriteConfig \/ CheckConfig
         \/ KnowsMaster \/ ReadsFormat \/ ReadsIndex \/ ReadsActive \/ ReadsCount)
  <2>1. Press \/ Release => call.kind \in Buttons BY PressMoves, ReleaseMoves DEF PlacesFit
  <2> QED BY <1>5, <2>1, LampMoves, ConfigMoves, WriteConfigMoves, ReadsMove
<1> QED BY <1>3, <1>10, <1>11, <1>12, <1>13, <1>14 DEF CallActs

-----------------------------------------------------------------------------
(* The configuration.                                                       *)

LEMMA ConfigsKeep ==
  ASSUME ConsoleTyped, PlacesFit, ConfigsInv, Handle \/ Others \/ CallActs
  PROVE  ConfigsInv'
<1>1. SameCall /\ con' = con /\ call'.kind = call.kind /\ call'.want = call.want
  BY FrameKeeps DEF SameCall
<1> SUFFICES ASSUME call.kind \in Configs  PROVE ConfigsInv'
  BY <1>1 DEF ConfigsInv
<1>2. call'.left.config = call.left.config
        => Modified(call.left.config)' = Modified(call.left.config)
  BY <1>1 DEF Modified, Listen
<1>3. call.kind \notin Buttons \cup Checks \cup Reads BY KindsApart
<1>4. CASE Handle
  <2>1. call' = call /\ inbox' = Tail(inbox) /\ inbox # <<>> BY <1>4, HandleMoves DEF Handle
  <2>2. PICK d : inbox = <<Written(d)>> /\ Head(inbox) = Written(d)
    BY <1>3, <1>4, HandleMoves
  <2>3. inbox' = <<>>
    <3>1. \A e : Tail(<<e>>) = <<>> OBVIOUS
    <3> QED BY <2>1, <2>2, <3>1
  <2>4. db'.config = d
    <3>1. db' = [db EXCEPT !.config = d] BY <1>4, <2>2, HandleMoves
    <3> QED BY <3>1 DEF ConsoleTyped
  <2>5. call.pc \notin {"begin", "look"} BY <2>1 DEF PlacesFit
  <2>6. call.pc \in {"check", "ok"} /\ ~call.overlap => inbox = <<Written(call.read)>>
    BY <2>1 DEF ConfigsInv
  <2>7. inbox = <<Written(call.read)>> => d = call.read BY <2>2 DEF Written
  <2> QED BY <1>2, <2>1, <2>3, <2>4, <2>5, <2>6, <2>7 DEF ConfigsInv
<1>5. CASE Others
  <2>1. /\ call'.left = db' /\ call'.pc = call.pc /\ db'.config \in Config
        /\ call'.overlap = (call.overlap \/ call.pc \notin {"begin", "look"})
    BY <1>5, OthersMove
  <2>2. DOMAIN db'.config = {"main", "extra", "crm", "listen"} BY <2>1 DEF Config
  <2>3. call'.pc \in {"check", "ok"} => call'.overlap BY <2>1
  <2> QED BY <2>1, <2>2, <2>3 DEF ConfigsInv
<1>6. CASE WriteConfig
  <2> DEFINE m == Modified(db.config)
  <2>1. /\ call.pc = "look" /\ call'.pc \in {"check", "ok"} /\ call'.read = m
        /\ inbox' = Append(inbox, Written(m)) /\ db' = db /\ call'.left = call.left
    BY <1>6, WriteConfigMoves DEF SameRecord
  <2>2. DOMAIN db.config = {"main", "extra", "crm", "listen"} /\ call.left.config = db.config
    BY <2>1 DEF ConfigsInv
  <2>3. inbox = <<>> BY <2>1 DEF PlacesFit
  <2>4. call'.read = Modified(call.left.config)'
    <3>1. call'.read = Modified(call.left.config) BY <2>1, <2>2
    <3> QED BY <1>2, <2>1, <3>1
  <2> HIDE DEF m
  <2>5. inbox' = <<Written(call'.read)>> BY <2>1, <2>3
  <2>6. inbox' # <<>> BY <2>5
  <2>7. inbox' = <<Written(call.read)>>' BY <2>5 DEF Written
  <2> QED BY <2>1, <2>2, <2>4, <2>5, <2>6, <2>7 DEF ConfigsInv
<1>7. CASE Refused \/ ReadConfig \/ CheckConfig
  <2>1. /\ call'.left = call.left /\ call'.overlap = call.overlap /\ call'.read = call.read
        /\ \/ call.pc = "begin" /\ call'.pc \in {"ValueError", "look"}
           \/ call.pc = "check" /\ call'.pc \in {"ok", "AssertionError"}
        /\ UNCHANGED <<db, inbox>>
    BY <1>7, ConfigMoves DEF SameRecord
  <2> QED BY <1>2, <2>1 DEF ConfigsInv, Written
<1>8. CASE NoAnswer
  <2>1. call.kind # "set_and_check" BY DEF Configs
  <2>2. call'.pc = "TimeoutError" BY <1>8, <2>1, NoAnswerMoves
  <2> QED BY <2>2 DEF ConfigsInv
<1>9. ~(\/ SeesLamp \/ SeesOtherLamp \/ Press \/ Release \/ Set \/ SeesValue
        \/ KnowsMaster \/ ReadsFormat \/ ReadsIndex \/ ReadsActive \/ ReadsCount)
  <2>1. Press \/ Release => call.kind \in Buttons BY PressMoves, ReleaseMoves DEF PlacesFit
  <2>2. Set => call.kind \in Checks BY SetMoves DEF Setting, Checks
  <2> QED BY <1>3, <2>1, <2>2, LampMoves, ValueMoves, ReadsMove
<1> QED BY <1>4, <1>5, <1>6, <1>7, <1>8, <1>9 DEF CallActs

LEMMA ModifiedKeepsOthers ==
  ASSUME ConfigsInv  PROVE ConfigKeepsOthers
<1> SUFFICES ASSUME call.kind \in Configs, call.pc = "ok", inbox = <<>>, ~call.overlap
             PROVE  ConfigKeepsOthers
  BY DEF ConfigKeepsOthers
<1>1. /\ DOMAIN call.left.config = {"main", "extra", "crm", "listen"}
      /\ db.config = Modified(call.left.config)
  BY DEF ConfigsInv
<1>2. CASE call.kind = "mcx_apply_crm_config"
  BY <1>1, <1>2 DEF Modified, ConfigKeepsOthers
<1>3. CASE call.kind # "mcx_apply_crm_config"
  <2> DEFINE theirs == call.left.config
             extra == IF call.want.extra \in {None, 0} THEN theirs.extra ELSE call.want.extra
  <2>1. db.config = [theirs EXCEPT !.main = call.want.main, !.listen = Listen,
                                   !.extra = extra]
    BY <1>1, <1>3 DEF Modified
  <2>2. call.want.extra \in {None, theirs.extra} => extra = theirs.extra OBVIOUS
  <2> HIDE DEF extra
  <2>3. /\ db.config.crm = theirs.crm /\ db.config.main = call.want.main
        /\ db.config.extra = extra /\ db.config.listen = Listen
    BY <1>1, <2>1
  <2> QED BY <1>3, <2>2, <2>3 DEF ConfigKeepsOthers
<1> QED BY <1>2, <1>3

-----------------------------------------------------------------------------
(* Questions.                                                               *)

LEMMA BlocksOfEight ==
  ASSUME NEW n \in Nat
  PROVE  /\ Floor(n) \in Nat /\ Floor(Floor(n)) = Floor(n) /\ Floor(n) \div 8 = n \div 8
         /\ n - (n % 8) = Floor(n) /\ Floor(n) = 8 * (n \div 8)
<1> DEFINE q == n \div 8
           r == n % 8
<1>1. n = 8 * q + r /\ r \in 0..7 /\ q \in Nat OBVIOUS
<1>2. Floor(n) = n - r BY DEF Floor
<1> HIDE DEF q, r
<1>3. n - r = 8 * q BY <1>1
<1>4. (8 * q) % 8 = 0 /\ (8 * q) \div 8 = q /\ 8 * q \in Nat BY <1>1
<1>5. Floor(8 * q) = 8 * q BY <1>1, <1>4 DEF Floor
<1> QED BY <1>1, <1>2, <1>3, <1>4, <1>5 DEF q, r

\* A signal's own index, or that of its block's first: the block is the same.
LEMMA ReadsKeep ==
  ASSUME ConsoleTyped, PlacesFit, ReadsInv, Handle \/ Others \/ CallActs
  PROVE  ReadsInv'
<1>1. SameCall /\ call'.kind = call.kind /\ call'.want = call.want BY FrameKeeps DEF SameCall
<1> SUFFICES ASSUME call.kind \in Reads  PROVE ReadsInv'
  BY <1>1 DEF ReadsInv
<1>2. call.kind \notin Buttons \cup Checks \cup Configs /\ inbox = <<>>
  BY KindsApart DEF PlacesFit
<1>3. ~Handle BY <1>2 DEF Handle
<1>4. CASE Others
  <2>1. alone' = FALSE /\ call'.pc = call.pc /\ call'.at = call.at /\ call'.read = call.read
    BY <1>4, OthersMove
  <2> QED BY <1>1, <2>1 DEF ReadsInv, ReadsFit
<1>5. CASE NoAnswer
  <2>1. call.kind # "set_and_check" BY DEF Reads
  <2>2. To("TimeoutError") BY <1>5, <2>1 DEF NoAnswer
  <2>3. /\ call'.pc = "TimeoutError" /\ call'.at = call.at
        /\ call.pc \notin {"begin", "ok"} /\ db' = db /\ alone' = alone
    BY <1>5, <2>2, ToMoves DEF NoAnswer
  <2> QED BY <1>1, <2>3 DEF ReadsInv, ReadsFit
<1>6. CASE ReadsFormat \/ ReadsIndex
  <2>1. /\ call.kind = "get_first_surround_signal" /\ UNCHANGED <<con, db, inbox, alone>>
        /\ call.pc \in {"look", "second"}
    BY <1>6 DEF ReadsFormat, ReadsIndex
  <2>2. /\ call.want \in Nat /\ call.at \in {call.want, Floor(call.want)}
        /\ call.pc = "second" /\ alone => InBundle(call.at)
        /\ ~IsMaster(call.want)
    BY <2>1 DEF ReadsInv
  <2>3. /\ call.at \in Nat /\ Floor(call.at) = Floor(call.want) /\ Floor(call.want) \in Nat
        /\ Floor(call.want) \div 8 = call.want \div 8
        /\ Floor(call.want) = 8 * (call.want \div 8)
        /\ call.at \div 8 = call.want \div 8
        /\ call.at - (call.at % 8) = Floor(call.at)
    BY <2>2, BlocksOfEight
  <2>4. \/ call'.pc = "second" /\ call'.at = call.at /\ InBundle(call.at)
        \/ call'.pc = "look" /\ call'.at = Floor(call.at)
        \/ call'.pc = "ok" /\ call'.at = call.at /\ call.at = Floor(call.at) /\ call'.read = call.at
        \/ call'.pc = "ok" /\ call'.at = call.at /\ InBundle(call.at) /\ call'.read = Floor(call.at)
        \/ call'.pc = "ok" /\ call'.at = call.at /\ ~InBundle(call.at) /\ call'.read = call.at
             /\ call.pc = "second"
    <3>1. CASE ReadsFormat /\ InBundle(call.at)
      <4>1. To("second") BY <3>1 DEF ReadsFormat
      <4> QED BY <3>1, <4>1, ToMoves
    <3>2. CASE ReadsFormat /\ ~InBundle(call.at) /\ call.at # Floor(call.at)
      <4>1. call.pc = "look" /\ call' = [call EXCEPT !.at = Floor(@)] BY <3>2 DEF ReadsFormat
      <4> QED BY <4>1 DEF ConsoleTyped
    <3>3. CASE ReadsFormat /\ ~InBundle(call.at) /\ call.at = Floor(call.at)
      <4>1. call' = [call EXCEPT !.pc = "ok", !.read = call.at] BY <3>3 DEF ReadsFormat
      <4> QED BY <3>3, <4>1 DEF ConsoleTyped
    <3>4. CASE ReadsIndex /\ InBundle(call.at)
      <4>1. call' = [call EXCEPT !.pc = "ok", !.read = Floor(call.at)]
        BY <2>3, <3>4 DEF ReadsIndex
      <4> QED BY <3>4, <4>1 DEF ConsoleTyped
    <3>5. CASE ReadsIndex /\ ~InBundle(call.at)
      <4>1. call.at - 0 = call.at BY <2>3
      <4>2. call' = [call EXCEPT !.pc = "ok", !.read = call.at] /\ call.pc = "second"
        BY <3>5, <4>1 DEF ReadsIndex
      <4> QED BY <3>5, <4>2 DEF ConsoleTyped
    <3> QED BY <1>6, <3>1, <3>2, <3>3, <3>4, <3>5
  <2>5. call'.at \in {call'.want, Floor(call'.want)} BY <1>1, <2>2, <2>3, <2>4
  <2>6. call'.pc = "second" /\ alone' => InBundle(call.at)'
    BY <2>1, <2>4 DEF InBundle
  <2>7. ReadsFit'
    <3> SUFFICES ASSUME call'.pc = "ok"
                 PROVE  /\ call'.read \div 8 = call.want \div 8
                        /\ alone => call'.read = Floor(call.want)
      BY <1>1, <2>1, <2>2, <2>3 DEF ReadsFit, Block
    <3>1. CASE call'.read = Floor(call.at) BY <2>3, <3>1
    <3>2. CASE call'.read = call.at /\ call.at = Floor(call.at) BY <2>3, <3>2
    <3>3. CASE ~InBundle(call.at) /\ call'.read = call.at /\ call.pc = "second"
      BY <2>2, <2>3, <3>3
    <3> QED BY <2>4, <3>1, <3>2, <3>3
  <2>8. call'.pc # "begin" BY <2>4
  <2> QED BY <1>1, <2>1, <2>2, <2>5, <2>6, <2>7, <2>8 DEF ReadsInv, InBundle, Floor
<1>7. CASE ReadsActive \/ ReadsCount
  <2>1. /\ call.kind = "mcx_get_dsp_channel_count" /\ UNCHANGED <<con, db, inbox, alone>>
        /\ call.pc \in {"look", "second"}
    BY <1>7 DEF ReadsActive, ReadsCount
  <2>2. call.kind # "get_first_surround_signal" BY <2>1
  <2>3. call.pc = "second" /\ alone => call.at = db.active BY <2>2 DEF ReadsInv
  <2>4. \/ call'.pc = "second" /\ call'.at = db.active
        \/ call'.pc = "ok" /\ call'.at = call.at /\ call'.read = call.at /\ call.pc = "second"
    BY <1>7 DEF ReadsActive, ReadsCount, ConsoleTyped
  <2> QED BY <1>1, <2>1, <2>2, <2>3, <2>4 DEF ReadsInv, ReadsFit
<1>8. CASE KnowsMaster
  <2>1. /\ call.kind = "get_first_surround_signal" /\ UNCHANGED <<con, db, inbox, alone>>
        /\ call.pc = "begin" /\ call'.pc = "ok" /\ call'.at = call.at
        /\ call'.read = (call.at - MasterBase) * 8
    BY <1>8 DEF KnowsMaster, ConsoleTyped
  <2>2. call.want \in Nat /\ IsMaster(call.want) /\ call.at = call.want
    BY <2>1 DEF ReadsInv
  <2> DEFINE n == call.want - MasterBase
  <2>3. n \in Nat /\ (n * 8) \div 8 = n /\ n * 8 = 8 * n
    BY <2>2, McxAssumption DEF IsMaster
  <2>4. Block(call.want) = n BY <2>2 DEF Block
  <2>5. call'.read = n * 8 BY <2>1, <2>2
  <2> HIDE DEF n
  <2>6. ReadsFit' BY <1>1, <2>1, <2>3, <2>4, <2>5 DEF ReadsFit
  <2> QED BY <1>1, <2>1, <2>2, <2>6 DEF ReadsInv
<1>9. ~(\/ SeesLamp \/ SeesOtherLamp \/ Press \/ Release \/ Set \/ SeesValue
        \/ Refused \/ ReadConfig \/ WriteConfig \/ CheckConfig)
  <2>1. Press \/ Release => call.kind \in Buttons BY PressMoves, ReleaseMoves DEF PlacesFit
  <2>2. Set => call.kind \in Checks BY SetMoves DEF Setting, Checks
  <2> QED BY <1>2, <2>1, <2>2, LampMoves, ValueMoves, ConfigMoves, WriteConfigMoves
<1> QED BY <1>3, <1>4, <1>5, <1>6, <1>7, <1>8, <1>9 DEF CallActs

-----------------------------------------------------------------------------
(* The beginning, and every step.                                           *)

ConShape == {"next", "takes", "tells", "prompt"}
DbShape == {"lamp", "value", "config", "bundle", "active"}

\* What every way of starting has in common.
LEMMA InputsFit ==
  ASSUME NEW kind \in AllKinds, NEW in \in Inputs(kind)
  PROVE  /\ DOMAIN in[1] = ConShape /\ in[1].prompt \in BOOLEAN /\ DOMAIN in[2] = DbShape
         /\ kind \in Checks =>
              /\ in[1].takes \in [1..Width -> [Values -> Values]] /\ in[1].tells \in 1..Width
              /\ in[2].value \in Data(in[1].tells) /\ in[3] \in Data(Width)
         /\ kind \in Configs => in[2].config \in Config
         /\ kind \in Reads => in[3] \in Nat
<1>1. DOMAIN SomeDb = DbShape /\ DOMAIN SomeCon = ConShape
  BY DEF SomeDb, DbShape, ConShape, SomeCon
<1>2. {"next", "takes", "tells", "prompt"} \subseteq ConShape /\ {"lamp", "value", "config"} \subseteq DbShape
  BY DEF ConShape, DbShape
<1>3. ASSUME NEW c \in Cons PROVE DOMAIN c = ConShape /\ c.prompt \in BOOLEAN
  BY <1>1, <1>2 DEF Cons
<1>0. "mcx_apply_uhd_dsp_config" \in Configs /\ "mcx_apply_crm_config" \in Configs
  BY DEF Configs
<1>4. CASE kind \in Buttons
  <2>1. in \in ButtonInputs BY <1>0, <1>4, KindsApart DEF Inputs
  <2> DEFINE C == [next: [Lamps -> Lamps], takes: {SomeCon.takes}, tells: {Width},
                   prompt: BOOLEAN]
             D == {[SomeDb EXCEPT !.lamp = l] : l \in Lamps}
  <2>2. in \in C \X D \X Lamps BY <2>1 DEF ButtonInputs
  <2> HIDE DEF C, D
  <2>3. in[1] \in C /\ in[2] \in D BY <2>2
  <2>4. DOMAIN in[1] = ConShape /\ in[1].prompt \in BOOLEAN BY <2>3 DEF C, ConShape
  <2>5. DOMAIN in[2] = DbShape BY <1>1, <2>3 DEF D
  <2> QED BY <1>4, <2>4, <2>5, KindsApart
<1>5. CASE kind \in Checks
  <2>1. in \in UNION {CheckInputs(n) : n \in 1..Width} BY <1>0, <1>5, KindsApart DEF Inputs
  <2>2. PICK n \in 1..Width : in \in CheckInputs(n) BY <2>1
  <2> DEFINE C == [next: {SomeCon.next}, takes: [1..Width -> [Values -> Values]], tells: {n},
                   prompt: BOOLEAN]
             D == {[SomeDb EXCEPT !.value = v] : v \in Data(n)}
             W == Data(Width)
  <2>3. in \in C \X D \X W BY <2>2 DEF CheckInputs
  <2> HIDE DEF C, D, W
  <2>4. in[1] \in C /\ in[2] \in D /\ in[3] \in W BY <2>3
  <2>5. /\ DOMAIN in[1] = ConShape /\ in[1].prompt \in BOOLEAN /\ in[1].tells = n
        /\ in[1].takes \in [1..Width -> [Values -> Values]]
    BY <2>4 DEF C, ConShape
  <2>6. DOMAIN in[2] = DbShape /\ in[2].value \in Data(n)
    <3>1. PICK v \in Data(n) : in[2] = [SomeDb EXCEPT !.value = v] BY <2>4 DEF D
    <3> QED BY <1>1, <3>1 DEF DbShape
  <2> QED BY <1>5, <2>4, <2>5, <2>6, KindsApart DEF W
<1>6. CASE kind \in Configs
  <2>1. PICK wants : in \in ConfigInputs(wants)
    <3>1. CASE kind = "mcx_apply_uhd_dsp_config" BY <1>6, <3>1, KindsApart DEF Inputs
    <3>2. CASE kind = "mcx_apply_crm_config" BY <1>6, <3>2, KindsApart DEF Inputs
    <3> QED BY <1>6, <3>1, <3>2 DEF Configs
  <2>2. in[1] \in Cons /\ \E c \in Config : in[2] = [SomeDb EXCEPT !.config = c]
    BY <2>1 DEF ConfigInputs
  <2>3. DOMAIN in[2] = DbShape /\ in[2].config \in Config BY <1>1, <1>2, <2>2
  <2> QED BY <1>3, <1>6, <2>2, <2>3, KindsApart
<1>7. CASE kind \in Reads
  <2>1. kind \notin Buttons \cup Checks \cup Configs BY <1>7, KindsApart
  <2>2. in \in ReadInputs BY <1>7, <2>1 DEF Inputs, Configs
  <2>3. in[1] \in Cons /\ in[3] \in Signals
        /\ \E b \in {0, 6, 8} : in[2] = [SomeDb EXCEPT !.bundle = b]
    BY <2>2 DEF ReadInputs
  <2>4. DOMAIN in[2] = DbShape BY <1>1, <2>3
  <2> QED BY <1>3, <1>7, <2>3, <2>4, KindsApart, McxAssumption
<1> QED BY <1>4, <1>5, <1>6, <1>7 DEF AllKinds

Start(kind, in) ==
  [con |-> in[1], db |-> in[2],
   call |-> [kind |-> kind, want |-> in[3], tries |-> 0, pc |-> First(kind, in[3]),
             at |-> IF kind = "get_first_surround_signal" THEN in[3] ELSE 0,
             read |-> None, left |-> in[2], overlap |-> FALSE]]

LEMMA StartsAreInputs ==
  Starts = UNION {{Start(kind, in) : in \in Inputs(kind)} : kind \in AllKinds}
BY DEF Starts, Start, AllKinds

LEMMA StartsFit ==
  ASSUME NEW s \in Starts, StartsAs(s)
  PROVE  ConsoleInv
<1>0. PICK kind \in AllKinds : \E in \in Inputs(kind) : s = Start(kind, in)
  BY StartsAreInputs
<1>1. PICK in \in Inputs(kind) : s = Start(kind, in) BY <1>0
<1> DEFINE at == IF kind = "get_first_surround_signal" THEN in[3] ELSE 0
           pc == First(kind, in[3])
<1>2. /\ pc \in {"begin", "look"} /\ (kind = "get_first_surround_signal" => at = in[3])
      /\ kind \in {"set_and_check", "set_and_check_not"} => pc = "begin"
      /\ kind = "get_first_surround_signal" => (pc = "begin" <=> IsMaster(in[3]))
  BY DEF First, Configs
<1> HIDE DEF at, pc
<1>3. /\ con = in[1] /\ db = in[2] /\ inbox = <<>> /\ alone = TRUE
      /\ call = [kind |-> kind, want |-> in[3], tries |-> 0, pc |-> pc, at |-> at,
                 read |-> None, left |-> in[2], overlap |-> FALSE]
  BY <1>1 DEF StartsAs, Start, at, pc
<1>4. /\ call.kind = kind /\ call.want = in[3] /\ call.tries = 0 /\ call.pc = pc
      /\ call.at = at /\ call.left = db /\ call.overlap = FALSE
      /\ DOMAIN call = {"kind", "want", "tries", "pc", "at", "read", "left", "overlap"}
  BY <1>3
<1>5. /\ DOMAIN con = ConShape /\ con.prompt \in BOOLEAN /\ DOMAIN db = DbShape
      /\ kind \in Checks =>
           /\ con.takes \in [1..Width -> [Values -> Values]] /\ con.tells \in 1..Width
           /\ db.value \in Data(con.tells) /\ call.want \in Data(Width)
      /\ kind \in Configs => db.config \in Config
      /\ kind \in Reads => call.want \in Nat
  BY <1>3, <1>4, InputsFit
<1>6. ConsoleTyped BY <1>3, <1>4, <1>5 DEF ConsoleTyped, ConShape, DbShape
<1>7. PlacesFit
  <2>1. \A S : <<>> \in Seq(S) OBVIOUS
  <2> QED BY <1>2, <1>3, <1>4, <2>1 DEF PlacesFit
<1>8. ButtonsInv
  <2>1. db.lamp = AfterPresses(0) BY <1>4, PressedUnfolds DEF AfterPresses
  <2>2. \A n \in 0..(0 - 1) : FALSE OBVIOUS
  <2> QED
    BY <1>2, <1>3, <1>4, <2>1, <2>2 DEF ButtonsInv, LampFits, SeenNotWanted, SeenAsItWas,
       ButtonsTellTheTruth, ToggledIsThere, ToggleErrorsAreTrue
<1>9. ChecksInv
  <2>1. ValueFits BY <1>4, <1>5 DEF ValueFits
  <2>2. Setting => call.pc = "begin" /\ db.value = call.left.value BY <1>2, <1>4 DEF Setting
  <2> QED BY <2>1, <2>2 DEF ChecksInv, CheckedIsInForce
<1>10. ConfigsInv
  <2>1. kind \in Configs => DOMAIN db.config = {"main", "extra", "crm", "listen"}
    BY <1>3, <1>5 DEF Config
  <2> QED BY <1>2, <1>4, <2>1 DEF ConfigsInv
<1>11. ReadsInv BY <1>2, <1>4, <1>5 DEF ReadsInv, ReadsFit
<1> QED BY <1>6, <1>7, <1>8, <1>9, <1>10, <1>11 DEF ConsoleInv

LEMMA ConsoleInvStep == ConsoleInv /\ [mcxNext]_mcxVars => ConsoleInv'
<1> SUFFICES ASSUME ConsoleInv, [mcxNext]_mcxVars  PROVE ConsoleInv'
  OBVIOUS
<1>1. CASE mcxNext
  <2>1. Handle \/ Others \/ CallActs BY <1>1 DEF mcxNext, CallActs
  <2>2. ConsoleTyped /\ PlacesFit /\ ButtonsInv /\ ChecksInv /\ ConfigsInv /\ ReadsInv
    BY DEF ConsoleInv
  <2>3. ConsoleTyped' BY <2>1, <2>2, FrameKeeps
  <2>4. PlacesFit' BY <2>1, <2>2, PlacesKeep
  <2>5. ButtonsInv' BY <2>1, <2>2, ButtonsKeep
  <2>6. ChecksInv' BY <2>1, <2>2, ChecksKeep
  <2>7. ConfigsInv' BY <2>1, <2>2, ConfigsKeep
  <2>8. ReadsInv' BY <2>1, <2>2, ReadsKeep
  <2> QED BY <2>3, <2>4, <2>5, <2>6, <2>7, <2>8 DEF ConsoleInv
<1>2. CASE UNCHANGED mcxVars
  <2>1. con' = con /\ db' = db /\ inbox' = inbox /\ call' = call /\ alone' = alone
    BY <1>2 DEF mcxVars
  <2>2. ConsoleTyped' /\ PlacesFit'
    BY <2>1 DEF ConsoleInv, ConsoleTyped, PlacesFit, SetWanted, Written
  <2>3. ASSUME NEW n PROVE AfterPresses(n)' = AfterPresses(n)
    BY <2>1 DEF AfterPresses, Pressed
  <2>4. ToggleErrorsAreTrue' = ToggleErrorsAreTrue
    BY <2>1 DEF ToggleErrorsAreTrue, Undisturbed, Pressed
  <2>5. ButtonsInv'
    BY <2>1, <2>3, <2>4 DEF ConsoleInv, ButtonsInv, LampFits, SeenNotWanted, SeenAsItWas,
       ButtonsTellTheTruth, ToggledIsThere, Undisturbed
  <2>6. ChecksInv'
    BY <2>1 DEF ConsoleInv, ChecksInv, ValueFits, CheckedIsInForce, MayHaveTold, Taken, Kept,
       Setting
  <2>7. ConfigsInv' BY <2>1 DEF ConsoleInv, ConfigsInv, Written, Modified, Listen
  <2>8. ReadsInv' BY <2>1 DEF ConsoleInv, ReadsInv, ReadsFit, InBundle
  <2> QED BY <2>2, <2>5, <2>6, <2>7, <2>8 DEF ConsoleInv
<1> QED BY <1>1, <1>2

LEMMA ConsoleInvTells ==
  ConsoleInv => ButtonsTellTheTruth /\ CheckedIsInForce /\ ConfigKeepsOthers /\ ReadsFit
<1> SUFFICES ASSUME ConsoleInv
             PROVE  ButtonsTellTheTruth /\ CheckedIsInForce /\ ConfigKeepsOthers /\ ReadsFit
  OBVIOUS
<1>1. ButtonsTellTheTruth
  BY DEF ConsoleInv, ButtonsInv, ButtonsTellTheTruth, ToggledIsThere, ToggleErrorsAreTrue
<1>2. CheckedIsInForce BY DEF ConsoleInv, ChecksInv, CheckedIsInForce
<1>3. ConfigKeepsOthers BY ModifiedKeepsOthers DEF ConsoleInv
<1>4. ReadsFit BY DEF ConsoleInv, ReadsInv, ReadsFit
<1> QED BY <1>1, <1>2, <1>3, <1>4

LEMMA ConsoleInvHolds == mcxSpec => []ConsoleInv
<1>1. mcxInit => ConsoleInv BY StartsFit DEF mcxInit
<1> QED BY <1>1, ConsoleInvStep, PTL DEF mcxSpec

\* Buttons (mcx.py, toggle_button_to, toggle_button_from): what a call comes to is
\* true of a prompt console nobody else touches: the lamp is, or is no longer, as
\* asked, and an error says that six presses, or one, would not make it so.
THEOREM ButtonsAreTrue == mcxSpec => []ButtonsTellTheTruth
BY ConsoleInvHolds, ConsoleInvTells, PTL

\* Checked settings (set_and_check, set_and_check_not): a setting that returns is in
\* force in every field that is told, or in none, whichever attempt set it, and one
\* that fails is not to be had; a late console tells of the value before at most.
THEOREM SettingsAreInForce == mcxSpec => []CheckedIsInForce
BY ConsoleInvHolds, ConsoleInvTells, PTL

\* The configuration of the mixer (mcx_apply_uhd_dsp_config, mcx_apply_crm_config): what
\* others wrote before it was read is there after it is written, for any counts; but
\* for the listens, which are as the call or its defaults say.
THEOREM OthersConfigIsKept == mcxSpec => []ConfigKeepsOthers
BY ConsoleInvHolds, ConsoleInvTells, PTL

\* Questions in two parts (get_first_surround_signal, mcx_get_dsp_channel_count): the
\* signal is of the block asked for, for every index, and the count that of the
\* active UHD Core.
THEOREM QuestionsFit == mcxSpec => []ReadsFit
BY ConsoleInvHolds, ConsoleInvTells, PTL

-----------------------------------------------------------------------------
(* Productions and snapshots: the inductive invariant.                      *)

Pcs == {"idle", "look", "blink", "send", "open", "stream", "sleep", "poll", "ok", "TimeoutError",
        "ValueError"}

AnyAsk == Asks \cup {CHOOSE a \in Asks : TRUE}

JobType == [ask : AnyAsk, n : Nat, looks : Nat, seen : BOOLEAN, sent : BOOLEAN,
            done : BOOLEAN, single : BOOLEAN, pc : Pcs]

Entries == [ask : AnyAsk, by : Nat]

\* What the proofs need of the types.
FilesTyped ==
  /\ job \in JobType
  /\ worker \in [queue : Seq(Entries), doing : Entries \cup {Nothing}]

\* Before its request is sent, a call has seen nothing and nothing is done for it.
SentFits ==
  /\ ~job.sent => ~job.done /\ ~job.single /\ ~job.seen
  /\ job.pc = "open" => ~job.seen
  /\ job.pc \in {"idle", "send"} => ~job.sent
  /\ job.pc \in {"open", "stream", "sleep", "poll", "ok"} => job.sent

\* The calls that are to keep their word.
Watched == job.single /\ job.ask.sort = "production" /\ job.ask.op \in {"save", "load"}

Ours == [ask |-> job.ask, by |-> job.n]

Saved == job.ask.op = "save" => <<"production", job.ask.name>> \in disk

Queued == ~job.done /\ worker.queue = <<Ours>> /\ worker.doing = Nothing
UnderWay == ~job.done /\ worker.queue = <<>> /\ worker.doing = Ours
Through == job.done /\ worker.queue = <<>> /\ worker.doing = Nothing /\ Saved

\* The worker has nothing but the request, and in the end nothing.
OnlyOurs == Watched => Queued \/ UnderWay \/ Through

\* A change of the flag that is seen on the stream is one made by the request: from
\* then on an idle worker is one that has carried it out.
SeenIsOurs ==
  Watched =>
    /\ job.pc # "sleep"
    /\ (job.pc = "stream" /\ job.seen) \/ job.pc = "look" => worker.queue = <<>>
    /\ job.pc \in {"blink", "poll", "ok"} => job.done
    /\ job.pc = "ok" /\ job.ask.op = "load" => current["production"] = job.ask.name

FilesInv == FilesTyped /\ SentFits /\ OnlyOurs /\ SeenIsOurs

-----------------------------------------------------------------------------
LEMMA FilesInvInit == filesInit => FilesInv
<1> SUFFICES ASSUME filesInit PROVE FilesInv
  OBVIOUS
<1>1. job = [ask |-> CHOOSE a \in Asks : TRUE, n |-> 0, looks |-> 0, seen |-> FALSE,
             sent |-> FALSE, done |-> FALSE, single |-> FALSE, pc |-> "idle"]
  BY DEF filesInit
<1>2. job \in JobType BY <1>1 DEF JobType, AnyAsk, Pcs
<1>3. worker \in [queue : Seq(Entries), doing : Entries \cup {Nothing}] BY DEF filesInit
<1>4. SentFits BY <1>1 DEF SentFits
<1>5. ~Watched BY <1>1 DEF Watched
<1> QED BY <1>2, <1>3, <1>4, <1>5 DEF FilesInv, FilesTyped, OnlyOurs, SeenIsOurs

LEMMA EntryIsSomething ==
  ASSUME NEW e \in Entries  PROVE e # Nothing
<1>1. DOMAIN e = {"ask", "by"} /\ DOMAIN Nothing = {"op"} BY DEF Entries, Nothing
<1> QED BY <1>1

LEMMA OursIsEntry ==
  ASSUME FilesTyped  PROVE Ours \in Entries /\ Ours # Nothing
<1>1. Ours \in Entries BY DEF FilesTyped, JobType, Ours, Entries
<1> QED BY <1>1, EntryIsSomething

\* A request taken up: of a watched call's it is its own.
LEMMA TakeKeeps ==
  ASSUME FilesInv, Take  PROVE FilesInv'
<1>1. FilesTyped /\ SentFits /\ OnlyOurs /\ SeenIsOurs BY DEF FilesInv
<1>2. /\ worker.doing = Nothing /\ worker.queue # <<>>
      /\ worker' = [queue |-> Tail(worker.queue), doing |-> Head(worker.queue)]
      /\ job' = [job EXCEPT !.seen = @ \/ job.pc = "stream"]
      /\ UNCHANGED <<current, disk>>
  BY DEF Take, Notify
<1>3. /\ job' \in JobType /\ job'.seen = (job.seen \/ job.pc = "stream")
      /\ job'.ask = job.ask /\ job'.n = job.n /\ job'.sent = job.sent
      /\ job'.done = job.done /\ job'.single = job.single /\ job'.pc = job.pc
  BY <1>1, <1>2 DEF FilesTyped, JobType
<1>4. worker' \in [queue : Seq(Entries), doing : Entries \cup {Nothing}]
  BY <1>1, <1>2 DEF FilesTyped
<1>5. SentFits' BY <1>1, <1>3 DEF SentFits
<1>6. Watched' = Watched /\ Ours' = Ours BY <1>3 DEF Watched, Ours
<1>7. Watched => Queued BY <1>1, <1>2, OursIsEntry DEF OnlyOurs, UnderWay, Through
<1>8. Watched => UnderWay'
  <2> SUFFICES ASSUME Watched PROVE UnderWay' OBVIOUS
  <2>1. worker.queue = <<Ours>> /\ ~job.done BY <1>7 DEF Queued
  <2>2. worker'.queue = <<>> /\ worker'.doing = Ours BY <1>2, <2>1
  <2> QED BY <1>3, <1>6, <2>1, <2>2 DEF UnderWay
<1>9. SeenIsOurs'
  <2>1. Watched => ~job.done /\ worker'.queue = <<>>
    BY <1>3, <1>6, <1>7, <1>8 DEF Queued, UnderWay
  <2> QED BY <1>1, <1>2, <1>3, <1>6, <2>1 DEF SeenIsOurs
<1>10. OnlyOurs' BY <1>6, <1>8 DEF OnlyOurs
<1>11. FilesTyped' BY <1>3, <1>4 DEF FilesTyped
<1> QED BY <1>5, <1>9, <1>10, <1>11 DEF FilesInv

\* A request carried out: of a watched call's it is its own, and it is through.
LEMMA FinishKeeps ==
  ASSUME FilesInv, Finish  PROVE FilesInv'
<1>1. FilesTyped /\ SentFits /\ OnlyOurs /\ SeenIsOurs BY DEF FilesInv
<1>2. /\ worker.doing # Nothing /\ worker' = [worker EXCEPT !.doing = Nothing]
      /\ job' = [job EXCEPT !.seen = @ \/ job.pc = "stream",
                            !.done = @ \/ (worker.doing.by = job.n /\ job.sent)]
  BY DEF Finish
<1>3. /\ job' \in JobType /\ job'.seen = (job.seen \/ job.pc = "stream")
      /\ job'.done = (job.done \/ (worker.doing.by = job.n /\ job.sent))
      /\ job'.ask = job.ask /\ job'.n = job.n /\ job'.sent = job.sent
      /\ job'.single = job.single /\ job'.pc = job.pc
  BY <1>1, <1>2 DEF FilesTyped, JobType
<1>4. /\ worker' \in [queue : Seq(Entries), doing : Entries \cup {Nothing}]
      /\ worker'.queue = worker.queue /\ worker'.doing = Nothing
  BY <1>1, <1>2 DEF FilesTyped
<1>5. SentFits' BY <1>1, <1>3 DEF SentFits
<1>6. Watched' = Watched /\ Ours' = Ours BY <1>3 DEF Watched, Ours
<1>7. Watched => UnderWay BY <1>1, <1>2 DEF OnlyOurs, Queued, Through
<1>8. Watched => job.sent BY <1>1 DEF SentFits, Watched
<1>9. Watched => Through'
  <2> SUFFICES ASSUME Watched PROVE Through' OBVIOUS
  <2>1. worker.doing = Ours /\ worker.queue = <<>> BY <1>7 DEF UnderWay
  <2>2. worker.doing.by = job.n /\ worker.doing.ask = job.ask BY <2>1 DEF Ours
  <2>3. job'.done = TRUE BY <1>3, <1>8, <2>2 DEF FilesTyped, JobType
  <2>4. Saved'
    <3>1. job.ask.sort = "production" BY DEF Watched
    <3> SUFFICES ASSUME job.ask.op = "save" PROVE <<"production", job.ask.name>> \in disk'
      BY <1>3 DEF Saved
    <3>2. disk' = disk \cup {<<job.ask.sort, job.ask.name>>} BY <2>2 DEF Finish
    <3> QED BY <3>1, <3>2
  <2> QED BY <1>4, <2>1, <2>3, <2>4 DEF Through
<1>10. SeenIsOurs'
  <2>1. Watched => ~job.done /\ worker'.queue = <<>> BY <1>4, <1>7 DEF UnderWay
  <2> QED BY <1>1, <1>3, <1>6, <2>1 DEF SeenIsOurs
<1>11. OnlyOurs' BY <1>6, <1>9 DEF OnlyOurs
<1>12. FilesTyped' BY <1>3, <1>4 DEF FilesTyped
<1> QED BY <1>5, <1>10, <1>11, <1>12 DEF FilesInv

\* A call that is no longer, or not yet, watched.
LEMMA UnwatchedKeeps ==
  ASSUME FilesTyped', SentFits', ~job'.single  PROVE FilesInv'
BY DEF FilesInv, OnlyOurs, SeenIsOurs, Watched

LEMMA OtherAsksKeeps ==
  ASSUME FilesInv, OtherAsks  PROVE FilesInv'
<1>1. FilesTyped /\ SentFits BY DEF FilesInv
<1>2. PICK a \in Asks : worker' = [worker EXCEPT !.queue = Append(@, [ask |-> a, by |-> 0])]
  BY DEF OtherAsks
<1>3. [ask |-> a, by |-> 0] \in Entries BY <1>2 DEF Entries, AnyAsk
<1>4. worker' \in [queue : Seq(Entries), doing : Entries \cup {Nothing}]
  <2>1. /\ worker \in [queue : Seq(Entries), doing : Entries \cup {Nothing}]
        /\ worker.queue \in Seq(Entries)
    BY <1>1 DEF FilesTyped
  <2>2. Append(worker.queue, [ask |-> a, by |-> 0]) \in Seq(Entries) BY <1>3, <2>1
  <2> QED BY <1>2, <2>1, <2>2
<1>5. job' = [job EXCEPT !.single = FALSE] BY DEF OtherAsks
<1>6. /\ job' \in JobType /\ job'.single = FALSE /\ job'.seen = job.seen
      /\ job'.sent = job.sent /\ job'.done = job.done /\ job'.pc = job.pc
  BY <1>1, <1>5 DEF FilesTyped, JobType
<1>7. SentFits' BY <1>1, <1>6 DEF SentFits
<1> QED BY <1>4, <1>6, <1>7, UnwatchedKeeps DEF FilesTyped

LEMMA CallFilesKeeps ==
  ASSUME FilesInv, NEW a \in Asks, CallFiles(a)  PROVE FilesInv'
<1>1. FilesTyped /\ job.n \in Nat BY DEF FilesInv, FilesTyped, JobType
<1>2. PICK pc \in {"look", "send"} :
        job' = [ask |-> a, n |-> job.n + 1, looks |-> 0, seen |-> FALSE, sent |-> FALSE,
                done |-> FALSE, single |-> FALSE, pc |-> pc]
  BY DEF CallFiles
<1>3. job' \in JobType BY <1>1, <1>2 DEF JobType, AnyAsk, Pcs
<1>4. worker' = worker BY DEF CallFiles
<1>5. SentFits' /\ ~job'.single BY <1>2 DEF SentFits
<1> QED BY <1>1, <1>3, <1>4, <1>5, UnwatchedKeeps DEF FilesTyped

\* The request is sent; a watched call's finds the worker with nothing to do.
LEMMA SendAskKeeps ==
  ASSUME FilesInv, SendAsk  PROVE FilesInv'
<1>1. FilesTyped /\ SentFits BY DEF FilesInv
<1> DEFINE single == worker = [queue |-> <<>>, doing |-> Nothing]
<1>2. PICK pc \in {"sleep", "look", "open"} :
        /\ job' = [job EXCEPT !.sent = TRUE, !.single = single, !.pc = pc]
        /\ pc = "sleep" => job.ask.sort # "production"
        /\ pc = "look" => job.ask.op = "delete"
  BY DEF SendAsk, Waits
<1>3. worker' = [worker EXCEPT !.queue = Append(@, Ours)] BY DEF SendAsk, Ours
<1>4. {"sleep", "look", "open"} \subseteq Pcs /\ single \in BOOLEAN BY DEF Pcs
<1> HIDE DEF single
<1>5. /\ job' \in JobType /\ job'.sent = TRUE /\ job'.single = single /\ job'.pc = pc
      /\ job'.ask = job.ask /\ job'.n = job.n /\ job'.seen = job.seen /\ job'.done = job.done
  BY <1>1, <1>2, <1>4 DEF FilesTyped, JobType
<1>6. /\ worker' \in [queue : Seq(Entries), doing : Entries \cup {Nothing}]
      /\ worker'.queue = Append(worker.queue, Ours) /\ worker'.doing = worker.doing
  <2>1. /\ worker \in [queue : Seq(Entries), doing : Entries \cup {Nothing}]
        /\ worker.queue \in Seq(Entries)
    BY <1>1 DEF FilesTyped
  <2>2. Append(worker.queue, Ours) \in Seq(Entries) BY <1>1, <2>1, OursIsEntry
  <2> QED BY <1>3, <2>1, <2>2
<1>7. job.pc = "send" /\ ~job.seen /\ ~job.done BY <1>1 DEF SendAsk, At, SentFits
<1>8. SentFits' BY <1>5, <1>7, <1>2 DEF SentFits
<1>9. Ours' = Ours BY <1>5 DEF Ours
<1>10. Watched' => Queued'
  <2> SUFFICES ASSUME Watched' PROVE Queued' OBVIOUS
  <2>1. single BY <1>5 DEF Watched
  <2>2. worker.queue = <<>> /\ worker.doing = Nothing BY <2>1 DEF single
  <2>3. worker'.queue = <<Ours>> BY <1>6, <2>2
  <2> QED BY <1>5, <1>6, <1>7, <1>9, <2>2, <2>3 DEF Queued
<1>11. Watched' => pc = "open" BY <1>2, <1>5 DEF Watched
<1>12. SeenIsOurs' BY <1>5, <1>11 DEF SeenIsOurs
<1> QED BY <1>5, <1>6, <1>8, <1>10, <1>12 DEF FilesInv, FilesTyped, OnlyOurs

\* A step of the call that leaves the console alone: it may go on to another place.
LEMMA MovesKeepFiles ==
  ASSUME FilesInv, UNCHANGED <<worker, current, disk>>, NEW pc \in Pcs, NEW looks \in Nat,
         job' = [job EXCEPT !.pc = pc, !.looks = looks],
         pc = "open" => ~job.seen,
         pc \in {"idle", "send"} => ~job.sent,
         pc \in {"open", "stream", "sleep", "poll", "ok"} => job.sent,
         Watched => /\ pc # "sleep"
                    /\ (pc = "stream" /\ job.seen) \/ pc = "look" => worker.queue = <<>>
                    /\ pc \in {"blink", "poll", "ok"} => job.done
                    /\ pc = "ok" /\ job.ask.op = "load" =>
                         current["production"] = job.ask.name
  PROVE  FilesInv'
<1>1. FilesTyped /\ SentFits /\ OnlyOurs BY DEF FilesInv
<1>2. /\ job' \in JobType /\ job'.pc = pc
      /\ job'.ask = job.ask /\ job'.n = job.n /\ job'.seen = job.seen /\ job'.done = job.done
      /\ job'.sent = job.sent /\ job'.single = job.single
  BY <1>1 DEF FilesTyped, JobType
<1>3. SentFits' BY <1>1, <1>2 DEF SentFits
<1>4. Watched' = Watched /\ Ours' = Ours BY <1>2 DEF Watched, Ours
<1>5. OnlyOurs' BY <1>1, <1>2, <1>4 DEF OnlyOurs, Queued, UnderWay, Through, Saved
<1>6. SeenIsOurs' BY <1>2, <1>4 DEF SeenIsOurs
<1> QED BY <1>1, <1>2, <1>3, <1>5, <1>6 DEF FilesInv, FilesTyped

\* The flag is looked at, and a blink awaited.
LEMMA LooksKeep ==
  ASSUME FilesInv, SeesIdle \/ SeesBusy \/ NoBlink  PROVE FilesInv'
<1>1. FilesTyped /\ SentFits /\ OnlyOurs /\ SeenIsOurs BY DEF FilesInv
<1>2. /\ UNCHANGED <<worker, current, disk>>
      /\ job \in JobType /\ job.looks \in Nat /\ job.looks + 1 \in Nat
      /\ {"look", "blink"} \subseteq Pcs
  BY <1>1 DEF SeesIdle, SeesBusy, NoBlink, FilesTyped, JobType, Pcs
<1>3. CASE SeesIdle
  <2>1. job' = [job EXCEPT !.pc = "blink", !.looks = job.looks]
    BY <1>2, <1>3 DEF SeesIdle, JobType
  <2>2. Watched => job.done
    <3>1. Watched => worker.doing = Nothing /\ worker.queue = <<>>
      BY <1>1, <1>3 DEF SeesIdle, At, SeenIsOurs
    <3> QED BY <1>1, <3>1, OursIsEntry DEF OnlyOurs, Queued, UnderWay, Through
  <2> QED BY <1>2, <2>1, <2>2, MovesKeepFiles
<1>4. CASE SeesBusy
  <2>1. job' = [job EXCEPT !.pc = "look", !.looks = job.looks + 1]
    BY <1>2, <1>4 DEF SeesBusy, At, JobType
  <2>2. Watched => worker.queue = <<>> BY <1>1, <1>4 DEF SeesBusy, At, SeenIsOurs
  <2> QED BY <1>2, <2>1, <2>2, MovesKeepFiles
<1>5. CASE NoBlink
  <2>1. job' = [job EXCEPT !.pc = "look", !.looks = job.looks + 1]
    BY <1>2, <1>5 DEF NoBlink
  <2>2. Watched => worker.queue = <<>>
    <3>1. Watched => job.done BY <1>1, <1>5 DEF NoBlink, At, SeenIsOurs
    <3> QED BY <1>1, <3>1 DEF OnlyOurs, Queued, UnderWay, Through
  <2> QED BY <1>2, <2>1, <2>2, MovesKeepFiles
<1> QED BY <1>3, <1>4, <1>5

\* The steps that begin a new part of the call.
LEMMA GoesOnKeeps ==
  ASSUME FilesInv, Blink \/ OpenStream \/ Streamed \/ Slept \/ PollCurrent \/ PollFails
                   \/ FilesTimeout
  PROVE  FilesInv'
<1>1. FilesTyped /\ SentFits /\ OnlyOurs /\ SeenIsOurs BY DEF FilesInv
<1>2. /\ UNCHANGED <<worker, current, disk>> /\ 0 \in Nat
      /\ {"send", "poll", "ok", "stream", "look", "TimeoutError", "ValueError"} \subseteq Pcs
  BY DEF Blink, OpenStream, Streamed, Slept, PollCurrent, PollFails, FilesTimeout, Pcs
<1>3. CASE Blink
  <2>1. CASE ~job.sent
    <3>1. job' = [job EXCEPT !.pc = "send", !.looks = 0] BY <1>3, <2>1 DEF Blink, Go
    <3>2. ~Watched BY <1>1, <2>1 DEF SentFits, Watched
    <3> QED BY <1>2, <2>1, <3>1, <3>2, MovesKeepFiles
  <2>2. CASE job.sent
    <3>1. Watched => job.done BY <1>1, <1>3 DEF Blink, At, SeenIsOurs
    <3>2. CASE job.ask.op = "load"
      <4>1. job' = [job EXCEPT !.pc = "poll", !.looks = 0] BY <1>3, <2>2, <3>2 DEF Blink, Go
      <4> QED BY <1>2, <2>2, <3>1, <4>1, MovesKeepFiles
    <3>3. CASE job.ask.op # "load"
      <4>1. job' = [job EXCEPT !.pc = "ok", !.looks = 0] BY <1>3, <2>2, <3>3 DEF Blink, Go
      <4> QED BY <1>2, <2>2, <3>1, <3>3, <4>1, MovesKeepFiles
    <3> QED BY <3>2, <3>3
  <2> QED BY <2>1, <2>2
<1>4. CASE OpenStream
  <2>1. job' = [job EXCEPT !.pc = "stream", !.looks = 0] BY <1>4 DEF OpenStream, Go
  <2>2. job.sent /\ ~job.seen BY <1>1, <1>4 DEF OpenStream, At, SentFits
  <2> QED BY <1>2, <2>1, <2>2, MovesKeepFiles
<1>5. CASE Streamed
  <2>1. job' = [job EXCEPT !.pc = "look", !.looks = 0] BY <1>5 DEF Streamed, Go
  <2>2. Watched => worker.queue = <<>> BY <1>1, <1>5 DEF Streamed, At, SeenIsOurs
  <2> QED BY <1>2, <2>1, <2>2, MovesKeepFiles
<1>6. CASE Slept
  <2>1. job.sent /\ ~Watched BY <1>1, <1>6 DEF Slept, At, SentFits, SeenIsOurs
  <2>2. PICK pc \in {"poll", "ok"} : job' = [job EXCEPT !.pc = pc, !.looks = 0]
    BY <1>6 DEF Slept, Go
  <2> QED BY <1>2, <2>1, <2>2, MovesKeepFiles
<1>7. CASE PollCurrent
  <2>1. job' = [job EXCEPT !.pc = "ok", !.looks = 0] BY <1>7 DEF PollCurrent, Go
  <2>2. job.sent /\ (Watched => job.done)
    BY <1>1, <1>7 DEF PollCurrent, At, SentFits, SeenIsOurs
  <2>3. Watched => current["production"] = job.ask.name
    BY <1>7 DEF PollCurrent, Watched
  <2> QED BY <1>2, <2>1, <2>2, <2>3, MovesKeepFiles
<1>8. CASE FilesTimeout
  <2>1. job' = [job EXCEPT !.pc = "TimeoutError", !.looks = 0] BY <1>8 DEF FilesTimeout, Go
  <2> QED BY <1>2, <2>1, MovesKeepFiles
<1>9. CASE PollFails
  <2>1. job' = [job EXCEPT !.pc = "ValueError", !.looks = 0] BY <1>9 DEF PollFails, Go
  <2> QED BY <1>2, <2>1, MovesKeepFiles
<1> QED BY <1>3, <1>4, <1>5, <1>6, <1>7, <1>8, <1>9

\* Every step keeps the invariant.
LEMMA FilesInvStep == FilesInv /\ [filesNext]_filesVars => FilesInv'
<1> SUFFICES ASSUME FilesInv, [filesNext]_filesVars PROVE FilesInv'
  OBVIOUS
<1>1. CASE Take BY <1>1, TakeKeeps
<1>2. CASE Finish BY <1>2, FinishKeeps
<1>3. CASE OtherAsks BY <1>3, OtherAsksKeeps
<1>4. CASE \E a \in Asks : CallFiles(a) BY <1>4, CallFilesKeeps
<1>5. CASE SeesIdle \/ SeesBusy \/ NoBlink BY <1>5, LooksKeep
<1>6. CASE SendAsk BY <1>6, SendAskKeeps
<1>7. CASE Blink \/ OpenStream \/ Streamed \/ Slept \/ PollCurrent \/ PollFails \/ FilesTimeout
  BY <1>7, GoesOnKeeps
<1>8. CASE UNCHANGED filesVars
  <2>1. UNCHANGED <<worker, current, disk, job>> BY <1>8 DEF filesVars
  <2> QED BY <2>1 DEF FilesInv, FilesTyped, SentFits, OnlyOurs, SeenIsOurs, Watched, Queued,
                      UnderWay, Through, Ours, Saved
<1> QED BY <1>1, <1>2, <1>3, <1>4, <1>5, <1>6, <1>7, <1>8 DEF filesNext, JobStep

\* A production whose saving or loading returns has been saved or loaded, when the
\* worker had nothing else to do, for any productions and whatever is asked for
\* before and after (save_production and load_production, mcx.py).
THEOREM ReturnedIsCarriedOut == filesSpec => []OkIsCarriedOut
<1>1. FilesInv => OkIsCarriedOut
  <2> SUFFICES ASSUME FilesInv, job.pc = "ok", job.single,
                      job.ask.sort = "production", job.ask.op \in {"save", "load"}
               PROVE  /\ job.done
                      /\ job.ask.op = "load" => current["production"] = job.ask.name
                      /\ job.ask.op = "save" => <<"production", job.ask.name>> \in disk
    BY DEF OkIsCarriedOut
  <2>1. Watched BY DEF Watched
  <2>2. job.done /\ (job.ask.op = "load" => current["production"] = job.ask.name)
    BY <2>1 DEF FilesInv, SeenIsOurs
  <2>3. Saved BY <2>1, <2>2 DEF FilesInv, OnlyOurs, Queued, UnderWay, Through
  <2> QED BY <2>2, <2>3 DEF Saved
<1> QED BY <1>1, FilesInvInit, FilesInvStep, PTL DEF filesSpec

-----------------------------------------------------------------------------
(* Plain settings, for buses of any width, kinds and numbers laid out        *)
(* anywhere as the library's are.  Each setting has a number and a subject;  *)
(* two settings share the one only where they share the other.              *)

AllFus == UNION {Fus(k) : k \in Kinds}

BusFus == UNION {Fus(k) : k \in {"GRP", "SUM", "AUX"}}

EqSettings == {<<EqAsked(f, b), <<f, b>>>> : f \in Fields, b \in Bands}
GainSettings == {<<GainAsked(fu), <<"gain", fu>>>> : fu \in Fus("AUX")}
BusSettings == {<<BusAsked(fu), <<"bus", fu>>>> : fu \in BusFus}

AllSettings == EqSettings \cup GainSettings \cup BusSettings

-----------------------------------------------------------------------------
(* Numbers.                                                                 *)

LEMMA KindIsOwn ==
  ASSUME NEW k \in Kinds, NEW fu \in Fus(k)
  PROVE  /\ KindOf(fu) = k /\ fu \in Int /\ FuBase[k] \in Nat
         /\ Index(fu) = fu - FuBase[k] /\ Index(fu) \in 0..(BusWidth - 1)
<1>1. /\ FuBase[k] \in Nat /\ BusWidth \in Nat /\ fu \in Int
      /\ FuBase[k] <= fu /\ fu < FuBase[k] + BusWidth
  BY SignalsAssumption DEF Fus
<1>2. ASSUME NEW j \in Kinds, FuBase[j] <= fu, fu < FuBase[j] + BusWidth
      PROVE  j = k
  <2>1. FuBase[j] \in Nat BY SignalsAssumption
  <2>2. j # k => FuBase[j] + BusWidth <= FuBase[k] \/ FuBase[k] + BusWidth <= FuBase[j]
    BY SignalsAssumption
  <2> QED BY <1>1, <1>2, <2>1, <2>2
<1>3. KindOf(fu) = k
  <2>1. \E j \in Kinds : FuBase[j] <= fu /\ fu < FuBase[j] + BusWidth BY <1>1
  <2>2. /\ KindOf(fu) \in Kinds
        /\ FuBase[KindOf(fu)] <= fu /\ fu < FuBase[KindOf(fu)] + BusWidth
    BY <2>1 DEF KindOf
  <2> QED BY <1>2, <2>2
<1> QED BY <1>1, <1>3 DEF Index

\* A number of an aux bus: its part, and its pair.
AuxNumber(p, i) == AuxBegin[p] + 16 * i

LEMMA AuxNumbersDiffer ==
  ASSUME NEW p \in AuxParts, NEW q \in AuxParts, NEW i \in Nat, NEW j \in Nat,
         AuxNumber(p, i) = AuxNumber(q, j)
  PROVE  p = q /\ i = j
<1>1. AuxBegin[p] \in Nat /\ AuxBegin[q] \in Nat BY NumbersAssumption
<1>2. p # q => AuxBegin[p] # AuxBegin[q] BY NumbersAssumption
<1>3. AuxBegin[p] < AuxBegin[q] + 16 /\ AuxBegin[q] < AuxBegin[p] + 16
  BY <1>1, NumbersAssumption
<1>4. AuxBegin[p] + 16 * i = AuxBegin[q] + 16 * j BY DEF AuxNumber
<1>5. i = j BY <1>1, <1>3, <1>4
<1> QED BY <1>1, <1>2, <1>4, <1>5

\* The leg of an aux bus, as its gain and as its assignment count it.
LEMMA AuxIsPaired ==
  ASSUME NEW fu \in Fus("AUX")
  PROVE  LET n == Index(fu)
         IN  /\ n \in 0..(BusWidth - 1) /\ (fu % 2 = 0 <=> n % 2 = 0)
             /\ n \div 2 \in 0..(BusWidth - 1)
             /\ fu = n + FuBase["AUX"] /\ FuBase["AUX"] \in Nat /\ BusWidth \in Nat
             /\ GainAsked(fu) = AuxNumber(IF n % 2 = 0 THEN "LevelL" ELSE "LevelR", n \div 2)
             /\ BusAsked(fu) = AuxNumber(IF n % 2 = 0 THEN "OnOffL" ELSE "OnOffR", n \div 2)
<1>0. PICK n, b, q : n = Index(fu) /\ b = FuBase["AUX"] /\ q = n \div 2 OBVIOUS
<1>1. /\ KindOf(fu) = "AUX" /\ fu \in Int /\ b \in Nat /\ n = fu - b
      /\ n \in 0..(BusWidth - 1) /\ BusWidth \in Nat
  BY <1>0, KindIsOwn, SignalsAssumption DEF Kinds
<1>2. b % 2 = 0 /\ AuxDelta = 16 BY <1>0, SignalsAssumption
<1>3. fu % 2 = 0 <=> n % 2 = 0 BY <1>1, <1>2
<1>4. q \in 0..(BusWidth - 1) BY <1>0, <1>1
<1>5. GainAsked(fu) = AuxNumber(IF n % 2 = 0 THEN "LevelL" ELSE "LevelR", q)
  <2>1. GainAsked(fu) = (IF n % 2 = 0 THEN AuxBegin["LevelL"] ELSE AuxBegin["LevelR"]) + q * 16
    BY <1>0, <1>2, <1>3 DEF GainAsked
  <2>2. q * 16 = 16 * q BY <1>4
  <2> QED BY <2>1, <2>2 DEF AuxNumber
<1>6. BusAsked(fu) = AuxNumber(IF n % 2 = 0 THEN "OnOffL" ELSE "OnOffR", q)
  BY <1>0, <1>1 DEF BusAsked, AuxAsked, AuxNumber
<1>7. fu = n + b BY <1>1
<1> QED BY <1>0, <1>1, <1>3, <1>4, <1>5, <1>6, <1>7

LEMMA LegsDiffer ==
  ASSUME NEW fu \in Fus("AUX"), NEW gu \in Fus("AUX"), Index(fu) \div 2 = Index(gu) \div 2,
         Index(fu) % 2 = 0 <=> Index(gu) % 2 = 0
  PROVE  fu = gu
<1> DEFINE m == Index(fu)
           n == Index(gu)
<1>1. m \in Nat /\ n \in Nat /\ fu = m + FuBase["AUX"] /\ gu = n + FuBase["AUX"]
  BY AuxIsPaired
<1>2. m = 2 * (m \div 2) + (m % 2) /\ n = 2 * (n \div 2) + (n % 2) /\ m % 2 \in 0..1 /\ n % 2 \in 0..1
  BY <1>1
<1>3. m = n BY <1>1, <1>2
<1> QED BY <1>1, <1>3

\* Where a number lies tells what it is of.
LEMMA GainNumbers ==
  ASSUME NEW fu \in Fus("AUX")
  PROVE  /\ GainAsked(fu) \in AuxNumbers
         /\ \E p \in {"LevelL", "LevelR"}, i \in Nat : GainAsked(fu) = AuxNumber(p, i)
<1>1. PICK p \in {"LevelL", "LevelR"} : GainAsked(fu) = AuxNumber(p, Index(fu) \div 2)
  BY AuxIsPaired
<1>2. Index(fu) \div 2 \in 0..(BusWidth - 1) /\ Index(fu) \div 2 \in Nat BY AuxIsPaired
<1> QED BY <1>1, <1>2 DEF AuxNumbers, AuxNumber, AuxParts

LEMMA BusNumbers ==
  ASSUME NEW k \in {"GRP", "SUM", "AUX"}, NEW fu \in Fus(k)
  PROVE  /\ k = "SUM" => BusAsked(fu) = SumBegin + Index(fu) /\ BusAsked(fu) \in SumNumbers
         /\ k = "GRP" => BusAsked(fu) = GroupBegin + Index(fu) /\ BusAsked(fu) \in GroupNumbers
         /\ k = "AUX" => /\ BusAsked(fu) \in AuxNumbers
                         /\ \E p \in {"OnOffL", "OnOffR"}, i \in Nat :
                              BusAsked(fu) = AuxNumber(p, i)
<1>1. /\ KindOf(fu) = k /\ Index(fu) \in 0..(BusWidth - 1) /\ BusWidth \in Nat
      /\ SumBegin \in Nat /\ GroupBegin \in Nat
  BY KindIsOwn, SignalsAssumption, NumbersAssumption DEF Kinds
<1>2. CASE k = "SUM"
  <2>1. BusAsked(fu) = SumBegin + Index(fu) BY <1>1, <1>2 DEF BusAsked, SumAsked
  <2> QED BY <1>1, <1>2, <2>1 DEF SumNumbers
<1>3. CASE k = "GRP"
  <2>1. BusAsked(fu) = GroupBegin + Index(fu) BY <1>1, <1>3 DEF BusAsked, GroupAsked
  <2> QED BY <1>1, <1>3, <2>1 DEF GroupNumbers
<1>4. CASE k = "AUX"
  <2>1. PICK p \in {"OnOffL", "OnOffR"} : BusAsked(fu) = AuxNumber(p, Index(fu) \div 2)
    BY <1>4, AuxIsPaired
  <2>2. Index(fu) \div 2 \in 0..(BusWidth - 1) /\ Index(fu) \div 2 \in Nat BY <1>4, AuxIsPaired
  <2> QED BY <1>4, <2>1, <2>2 DEF AuxNumbers, AuxNumber, AuxParts
<1> QED BY <1>2, <1>3, <1>4

\* An input and the sum it stands for share their number.
LEMMA BusIsKept ==
  ASSUME NEW fu \in AllFus
  PROVE  Bus(fu) \in BusFus /\ BusAsked(Bus(fu)) = BusAsked(fu)
<1>1. PICK k \in Kinds : fu \in Fus(k) BY DEF AllFus
<1>2. /\ KindOf(fu) = k /\ fu \in Int /\ FuBase[k] \in Nat
      /\ Index(fu) = fu - FuBase[k] /\ Index(fu) \in 0..(BusWidth - 1)
  BY <1>1, KindIsOwn
<1>3. CASE k # "INP"
  BY <1>1, <1>2, <1>3 DEF Bus, BusFus, Kinds
<1>4. CASE k = "INP"
  <2> DEFINE gu == Index(fu) + FuBase["SUM"]
  <2>1. FuBase["SUM"] \in Nat /\ BusWidth \in Nat BY SignalsAssumption DEF Kinds
  <2>2. gu \in Fus("SUM") /\ gu - FuBase["SUM"] = Index(fu) BY <1>2, <2>1 DEF Fus
  <2>3. BusAsked(fu) = SumBegin + Index(fu) BY <1>2, <1>4 DEF BusAsked, SumAsked
  <2>4. Bus(fu) = gu BY <1>2, <1>4 DEF Bus
  <2> HIDE DEF gu
  <2>5. Index(gu) = gu - FuBase["SUM"] BY <2>2, KindIsOwn DEF Kinds
  <2>6. BusAsked(gu) = SumBegin + Index(gu) BY <2>2, BusNumbers
  <2> QED BY <2>2, <2>3, <2>4, <2>5, <2>6 DEF BusFus
<1> QED BY <1>3, <1>4

LEMMA GainsDiffer ==
  ASSUME NEW fu \in Fus("AUX"), NEW gu \in Fus("AUX"), GainAsked(fu) = GainAsked(gu)
  PROVE  fu = gu
<1> DEFINE p == IF Index(fu) % 2 = 0 THEN "LevelL" ELSE "LevelR"
           q == IF Index(gu) % 2 = 0 THEN "LevelL" ELSE "LevelR"
<1>1. AuxNumber(p, Index(fu) \div 2) = AuxNumber(q, Index(gu) \div 2) BY AuxIsPaired
<1>2. Index(fu) \div 2 \in Nat /\ Index(gu) \div 2 \in Nat /\ p \in AuxParts /\ q \in AuxParts
  BY AuxIsPaired DEF AuxParts
<1>3. p = q /\ Index(fu) \div 2 = Index(gu) \div 2
  <2> HIDE DEF p, q
  <2> QED BY <1>1, <1>2, AuxNumbersDiffer
<1> QED BY <1>3, LegsDiffer

LEMMA AssignsDiffer ==
  ASSUME NEW fu \in Fus("AUX"), NEW gu \in Fus("AUX"), BusAsked(fu) = BusAsked(gu)
  PROVE  fu = gu
<1> DEFINE p == IF Index(fu) % 2 = 0 THEN "OnOffL" ELSE "OnOffR"
           q == IF Index(gu) % 2 = 0 THEN "OnOffL" ELSE "OnOffR"
<1>1. AuxNumber(p, Index(fu) \div 2) = AuxNumber(q, Index(gu) \div 2) BY AuxIsPaired
<1>2. Index(fu) \div 2 \in Nat /\ Index(gu) \div 2 \in Nat /\ p \in AuxParts /\ q \in AuxParts
  BY AuxIsPaired DEF AuxParts
<1>3. p = q /\ Index(fu) \div 2 = Index(gu) \div 2
  <2> HIDE DEF p, q
  <2> QED BY <1>1, <1>2, AuxNumbersDiffer
<1> QED BY <1>3, LegsDiffer

\* Two buses that share a number are one bus.
LEMMA BusesDiffer ==
  ASSUME NEW fu \in BusFus, NEW gu \in BusFus, BusAsked(fu) = BusAsked(gu)
  PROVE  fu = gu
<1>1. PICK j \in {"GRP", "SUM", "AUX"} : fu \in Fus(j) BY DEF BusFus
<1>2. PICK k \in {"GRP", "SUM", "AUX"} : gu \in Fus(k) BY DEF BusFus
<1>3. j = k
  <2>1. /\ j = "SUM" => BusAsked(fu) \in SumNumbers
        /\ j = "GRP" => BusAsked(fu) \in GroupNumbers
        /\ j = "AUX" => BusAsked(fu) \in AuxNumbers
    BY <1>1, BusNumbers
  <2>2. /\ k = "SUM" => BusAsked(gu) \in SumNumbers
        /\ k = "GRP" => BusAsked(gu) \in GroupNumbers
        /\ k = "AUX" => BusAsked(gu) \in AuxNumbers
    BY <1>2, BusNumbers
  <2> QED BY <2>1, <2>2, NumbersAssumption
<1>4. CASE k = "AUX" BY <1>1, <1>2, <1>3, <1>4, AssignsDiffer
<1>5. CASE k # "AUX"
  <2>1. /\ fu \in Int /\ gu \in Int /\ FuBase[k] \in Nat
        /\ Index(fu) = fu - FuBase[k] /\ Index(gu) = gu - FuBase[k]
    BY <1>1, <1>2, <1>3, KindIsOwn DEF Kinds
  <2>2. SumBegin \in Nat /\ GroupBegin \in Nat BY NumbersAssumption
  <2> DEFINE m == Index(fu)
             n == Index(gu)
  <2>3. m \in Int /\ n \in Int BY <2>1
  <2>4. m = n
    <3>1. CASE k = "SUM"
      <4>1. SumBegin + m = SumBegin + n BY <1>1, <1>2, <1>3, <3>1, BusNumbers
      <4> HIDE DEF m, n
      <4> QED BY <2>2, <2>3, <4>1
    <3>2. CASE k = "GRP"
      <4>1. GroupBegin + m = GroupBegin + n BY <1>1, <1>2, <1>3, <3>2, BusNumbers
      <4> HIDE DEF m, n
      <4> QED BY <2>2, <2>3, <4>1
    <3> QED BY <1>2, <1>5, <3>1, <3>2
  <2> QED BY <2>1, <2>4
<1> QED BY <1>4, <1>5

-----------------------------------------------------------------------------
(* Settings.                                                                *)

\* What each setting's number and subject are.
LEMMA SettingsLie ==
  /\ \A x \in EqSettings :
       x[1] \in EqNumbers /\ \E e \in Fields \X Bands : x = <<EqBegin[e], e>>
  /\ \A x \in GainSettings :
       /\ x[1] \in AuxNumbers /\ x[2][1] = "gain"
       /\ \E p \in {"LevelL", "LevelR"}, i \in Nat : x[1] = AuxNumber(p, i)
       /\ \E fu \in Fus("AUX") : x = <<GainAsked(fu), <<"gain", fu>>>>
  /\ \A x \in BusSettings :
       /\ x[1] \in SumNumbers \cup GroupNumbers \cup AuxNumbers /\ x[2][1] = "bus"
       /\ x[1] \in AuxNumbers =>
            \E p \in {"OnOffL", "OnOffR"}, i \in Nat : x[1] = AuxNumber(p, i)
       /\ \E fu \in BusFus : x = <<BusAsked(fu), <<"bus", fu>>>>
<1>1. ASSUME NEW x \in EqSettings
      PROVE  x[1] \in EqNumbers /\ \E e \in Fields \X Bands : x = <<EqBegin[e], e>>
  <2>1. PICK f \in Fields, b \in Bands : x = <<EqAsked(f, b), <<f, b>>>> BY DEF EqSettings
  <2>2. x = <<EqBegin[<<f, b>>], <<f, b>>>> /\ <<f, b>> \in Fields \X Bands BY <2>1 DEF EqAsked
  <2> QED BY <2>2 DEF EqNumbers
<1>2. ASSUME NEW x \in GainSettings
      PROVE  /\ x[1] \in AuxNumbers /\ x[2][1] = "gain"
             /\ \E p \in {"LevelL", "LevelR"}, i \in Nat : x[1] = AuxNumber(p, i)
             /\ \E fu \in Fus("AUX") : x = <<GainAsked(fu), <<"gain", fu>>>>
  <2>1. PICK fu \in Fus("AUX") : x = <<GainAsked(fu), <<"gain", fu>>>> BY DEF GainSettings
  <2> QED BY <2>1, GainNumbers
<1>3. ASSUME NEW x \in BusSettings
      PROVE  /\ x[1] \in SumNumbers \cup GroupNumbers \cup AuxNumbers /\ x[2][1] = "bus"
             /\ x[1] \in AuxNumbers =>
                  \E p \in {"OnOffL", "OnOffR"}, i \in Nat : x[1] = AuxNumber(p, i)
             /\ \E fu \in BusFus : x = <<BusAsked(fu), <<"bus", fu>>>>
  <2>1. PICK fu \in BusFus : x = <<BusAsked(fu), <<"bus", fu>>>> BY DEF BusSettings
  <2>2. PICK k \in {"GRP", "SUM", "AUX"} : fu \in Fus(k) BY DEF BusFus
  <2>3. /\ BusAsked(fu) \in SumNumbers \cup GroupNumbers \cup AuxNumbers
        /\ BusAsked(fu) \in AuxNumbers =>
             \E p \in {"OnOffL", "OnOffR"}, i \in Nat : BusAsked(fu) = AuxNumber(p, i)
    BY <2>2, BusNumbers, NumbersAssumption
  <2> QED BY <2>1, <2>3
<1> QED BY <1>1, <1>2, <1>3

\* Two settings share their number only where they share their subject.
LEMMA SettingsApart ==
  ASSUME NEW x \in AllSettings, NEW y \in AllSettings
  PROVE  x[1] = y[1] <=> x[2] = y[2]
<1>1. ASSUME NEW u \in EqSettings, NEW v \in EqSettings PROVE u[1] = v[1] <=> u[2] = v[2]
  BY SettingsLie, NumbersAssumption
<1>2. ASSUME NEW u \in GainSettings, NEW v \in GainSettings PROVE u[1] = v[1] <=> u[2] = v[2]
  <2>1. PICK fu \in Fus("AUX") : u = <<GainAsked(fu), <<"gain", fu>>>> BY SettingsLie
  <2>2. PICK gu \in Fus("AUX") : v = <<GainAsked(gu), <<"gain", gu>>>> BY SettingsLie
  <2> QED BY <2>1, <2>2, GainsDiffer
<1>3. ASSUME NEW u \in BusSettings, NEW v \in BusSettings PROVE u[1] = v[1] <=> u[2] = v[2]
  <2>1. PICK fu \in BusFus : u = <<BusAsked(fu), <<"bus", fu>>>> BY SettingsLie
  <2>2. PICK gu \in BusFus : v = <<BusAsked(gu), <<"bus", gu>>>> BY SettingsLie
  <2> QED BY <2>1, <2>2, BusesDiffer
<1>4. ASSUME NEW u \in EqSettings, NEW v \in GainSettings \cup BusSettings
      PROVE  u[1] # v[1] /\ u[2] # v[2]
  <2>1. PICK e \in Fields \X Bands : u = <<EqBegin[e], e>> BY SettingsLie
  <2>2. u[1] \in EqNumbers /\ u[2][1] \in Fields BY <2>1, SettingsLie
  <2>3. v[1] \in SumNumbers \cup GroupNumbers \cup AuxNumbers /\ v[2][1] \in {"gain", "bus"}
    BY SettingsLie
  <2>4. u[1] # v[1] BY <2>2, <2>3, NumbersAssumption
  <2>5. u[2] # v[2] BY <2>2, <2>3 DEF Fields
  <2> QED BY <2>4, <2>5
<1>5. ASSUME NEW u \in GainSettings, NEW v \in BusSettings
      PROVE  u[1] # v[1] /\ u[2] # v[2]
  <2>1. u[2] # v[2] BY SettingsLie
  <2>2. PICK p \in {"LevelL", "LevelR"}, i \in Nat : u[1] = AuxNumber(p, i) BY SettingsLie
  <2>3. CASE v[1] \in AuxNumbers
    <3>1. PICK q \in {"OnOffL", "OnOffR"}, j \in Nat : v[1] = AuxNumber(q, j)
      BY <2>3, SettingsLie
    <3>2. p \in AuxParts /\ q \in AuxParts /\ p # q BY DEF AuxParts
    <3> QED BY <2>1, <2>2, <3>1, <3>2, AuxNumbersDiffer
  <2>4. CASE v[1] \notin AuxNumbers BY <2>1, <2>4, SettingsLie
  <2> QED BY <2>3, <2>4
<1> QED BY <1>1, <1>2, <1>3, <1>4, <1>5 DEF AllSettings

\* SettingsMeet, a setting at a time.
LEMMA MeetingIsEach ==
  SettingsMeet <=> \A c \in Channels, x \in AllSettings : Same(x[1], x[2], c)
<1>1. ASSUME SettingsMeet, NEW c \in Channels, NEW x \in AllSettings
      PROVE  Same(x[1], x[2], c)
  <2>1. CASE x \in EqSettings
    <3>1. PICK f \in Fields, b \in Bands : x = <<EqAsked(f, b), <<f, b>>>>
      BY <2>1 DEF EqSettings
    <3> QED BY <1>1, <3>1 DEF SettingsMeet
  <2>2. CASE x \in GainSettings
    <3>1. PICK fu \in Fus("AUX") : x = <<GainAsked(fu), <<"gain", fu>>>>
      BY <2>2 DEF GainSettings
    <3> QED BY <1>1, <3>1 DEF SettingsMeet
  <2>3. CASE x \in BusSettings
    <3>1. PICK fu \in BusFus : x = <<BusAsked(fu), <<"bus", fu>>>> BY <2>3 DEF BusSettings
    <3>2. PICK k \in {"GRP", "SUM", "AUX"} : fu \in Fus(k) BY DEF BusFus
    <3>3. Bus(fu) = fu /\ k \in Kinds BY <3>2, KindIsOwn DEF Bus, Kinds
    <3> QED BY <1>1, <3>1, <3>2, <3>3 DEF SettingsMeet
  <2> QED BY <2>1, <2>2, <2>3 DEF AllSettings
<1>2. ASSUME \A c \in Channels, x \in AllSettings : Same(x[1], x[2], c), NEW c \in Channels
      PROVE  /\ \A f \in Fields, b \in Bands : Same(EqAsked(f, b), <<f, b>>, c)
             /\ \A fu \in Fus("AUX") : Same(GainAsked(fu), <<"gain", fu>>, c)
             /\ \A k \in Kinds : \A fu \in Fus(k) : Same(BusAsked(fu), <<"bus", Bus(fu)>>, c)
  <2>1. ASSUME NEW f \in Fields, NEW b \in Bands PROVE Same(EqAsked(f, b), <<f, b>>, c)
    <3> DEFINE x == <<EqAsked(f, b), <<f, b>>>>
    <3>1. x \in AllSettings BY DEF AllSettings, EqSettings
    <3> QED BY <1>2, <3>1
  <2>2. ASSUME NEW fu \in Fus("AUX") PROVE Same(GainAsked(fu), <<"gain", fu>>, c)
    <3> DEFINE x == <<GainAsked(fu), <<"gain", fu>>>>
    <3>1. x \in AllSettings BY DEF AllSettings, GainSettings
    <3> QED BY <1>2, <3>1
  <2>3. ASSUME NEW k \in Kinds, NEW fu \in Fus(k)
        PROVE  Same(BusAsked(fu), <<"bus", Bus(fu)>>, c)
    <3> DEFINE x == <<BusAsked(fu), <<"bus", Bus(fu)>>>>
    <3>1. fu \in AllFus BY DEF AllFus
    <3>2. x = <<BusAsked(Bus(fu)), <<"bus", Bus(fu)>>>> /\ Bus(fu) \in BusFus
      BY <3>1, BusIsKept
    <3>3. x \in AllSettings BY <3>2 DEF AllSettings, BusSettings
    <3> QED BY <1>2, <3>3
  <2> QED BY <2>1, <2>2, <2>3
<1> QED BY <1>1, <1>2 DEF SettingsMeet

\* Events to the numbers of some settings, for their subjects.
LEMMA EventsKeep ==
  ASSUME SettingsMeet, NEW channel, NEW value, NEW P \in SUBSET AllSettings,
         NEW numbers, NEW subjects,
         \A x \in P : x[1] \in numbers /\ x[2] \in subjects,
         \A n \in numbers : \E x \in P : x[1] = n, \A s \in subjects : \E x \in P : x[2] = s,
         Events(numbers, subjects, channel, value)
  PROVE  SettingsMeet'
<1> DEFINE each == \A c \in Channels, x \in AllSettings : Same(x[1], x[2], c)
<1>1. each BY MeetingIsEach
<1> DEFINE KP == numbers \X {channel}
           KS == subjects \X {channel}
<1>2. /\ table' = [k \in DOMAIN table \cup KP |-> IF k \in KP THEN value ELSE table[k]]
      /\ mixer' = [k \in DOMAIN mixer \cup KS |-> IF k \in KS THEN value ELSE mixer[k]]
  BY DEF Events, Put
<1>3. ASSUME NEW c \in Channels, NEW x \in AllSettings  PROVE Same(x[1], x[2], c)'
  <2> DEFINE n == x[1]
             s == x[2]
  <2>1. Same(n, s, c) BY <1>1
  <2>2. n \in numbers <=> s \in subjects BY SettingsApart
  <2>3. <<n, c>> \in KP <=> <<s, c>> \in KS BY <2>2
  <2> HIDE DEF n, s, KP, KS
  <2>4. /\ <<n, c>> \in DOMAIN table' <=> <<n, c>> \in DOMAIN table \cup KP
        /\ <<s, c>> \in DOMAIN mixer' <=> <<s, c>> \in DOMAIN mixer \cup KS
    BY <1>2
  <2>5. CASE <<n, c>> \in KP BY <1>2, <2>1, <2>3, <2>4, <2>5 DEF Same, n, s
  <2>6. CASE <<n, c>> \notin KP BY <1>2, <2>1, <2>3, <2>4, <2>6 DEF Same, n, s
  <2> QED BY <2>5, <2>6
<1>4. each' BY <1>3
<1> QED BY <1>4, MeetingIsEach, PTL

-----------------------------------------------------------------------------
\* Where the code asks is where it sets.
LEMMA SetIsAsked ==
  /\ \A f, b : EqSet(f, b) = EqAsked(f, b)
  /\ \A fu : GainSet(fu) = GainAsked(fu) /\ BusSet(fu) = BusAsked(fu)
BY DEF EqSet, EqAsked, GainSet, GainAsked, BusSet, BusAsked, SumSet, SumAsked,
       GroupSet, GroupAsked, AuxSet, AuxAsked

LEMMA EqBandKeeps ==
  ASSUME SettingsMeet, NEW channel \in Channels, NEW value, NEW band \in 0..5,
         NEW fields \in SUBSET Fields, SetEqBand(channel, band, fields, value)
  PROVE  SettingsMeet'
<1>1. CASE band \notin Bands
  <2>1. UNCHANGED <<table, mixer>> BY <1>1 DEF SetEqBand
  <2> QED BY <2>1 DEF SettingsMeet, Same
<1>2. CASE band \in Bands
  <2> DEFINE P == {<<EqAsked(f, band), <<f, band>>>> : f \in fields}
             numbers == {EqSet(f, band) : f \in fields}
             subjects == {<<f, band>> : f \in fields}
  <2>1. P \in SUBSET AllSettings BY <1>2 DEF AllSettings, EqSettings
  <2>2. /\ \A x \in P : x[1] \in numbers /\ x[2] \in subjects
        /\ \A n \in numbers : \E x \in P : x[1] = n
        /\ \A s \in subjects : \E x \in P : x[2] = s
    <3>1. \A x \in P : \E f \in fields : x = <<EqAsked(f, band), <<f, band>>>> OBVIOUS
    <3>2. \A f \in fields : <<EqAsked(f, band), <<f, band>>>> \in P OBVIOUS
    <3>3. \A n \in numbers : \E f \in fields : n = EqAsked(f, band) BY SetIsAsked
    <3>4. \A f \in fields : EqAsked(f, band) \in numbers BY SetIsAsked
    <3>5. /\ \A s \in subjects : \E f \in fields : s = <<f, band>>
          /\ \A f \in fields : <<f, band>> \in subjects
      OBVIOUS
    <3> HIDE DEF P, numbers, subjects
    <3>6. \A x \in P : x[1] \in numbers /\ x[2] \in subjects BY <3>1, <3>4, <3>5
    <3>7. \A n \in numbers : \E x \in P : x[1] = n BY <3>2, <3>3
    <3>8. \A s \in subjects : \E x \in P : x[2] = s BY <3>2, <3>5
    <3> QED BY <3>6, <3>7, <3>8
  <2>3. Events(numbers, subjects, channel, value) BY <1>2 DEF SetEqBand
  <2> HIDE DEF P, numbers, subjects
  <2> QED BY <2>1, <2>2, <2>3, EventsKeep
<1> QED BY <1>1, <1>2

\* One setting, one event.
LEMMA OneEventKeeps ==
  ASSUME SettingsMeet, NEW channel, NEW value, NEW number, NEW subject,
         <<number, subject>> \in AllSettings, Events({number}, {subject}, channel, value)
  PROVE  SettingsMeet'
<1> DEFINE P == {<<number, subject>>}
           numbers == {number}
           subjects == {subject}
<1>1. P \in SUBSET AllSettings OBVIOUS
<1>2. /\ \A x \in P : x[1] \in numbers /\ x[2] \in subjects
      /\ \A n \in numbers : \E x \in P : x[1] = n
      /\ \A s \in subjects : \E x \in P : x[2] = s
  OBVIOUS
<1>3. Events(numbers, subjects, channel, value) OBVIOUS
<1> HIDE DEF P, numbers, subjects
<1> QED BY <1>1, <1>2, <1>3, EventsKeep

LEMMA AuxGainKeeps ==
  ASSUME SettingsMeet, NEW channel \in Channels, NEW value, NEW fu \in Fus("AUX"),
         SetAuxGain(fu, channel, value)
  PROVE  SettingsMeet'
<1>1. <<GainAsked(fu), <<"gain", fu>>>> \in AllSettings BY DEF AllSettings, GainSettings
<1>2. Events({GainAsked(fu)}, {<<"gain", fu>>}, channel, value) BY SetIsAsked DEF SetAuxGain
<1> QED BY <1>1, <1>2, OneEventKeeps

LEMMA BusAssignKeeps ==
  ASSUME SettingsMeet, NEW channel \in Channels, NEW value, NEW fu \in AllFus,
         AssignBus(fu, channel, value)
  PROVE  SettingsMeet'
<1>1. Bus(fu) \in BusFus /\ BusAsked(Bus(fu)) = BusAsked(fu) BY BusIsKept
<1>2. <<BusAsked(fu), <<"bus", Bus(fu)>>>> \in AllSettings BY <1>1 DEF AllSettings, BusSettings
<1>3. Events({BusAsked(fu)}, {<<"bus", Bus(fu)>>}, channel, value) BY SetIsAsked DEF AssignBus
<1> QED BY <1>2, <1>3, OneEventKeeps

-----------------------------------------------------------------------------
\* Whatever settings are made, in whatever order and on whatever channels, and wherever
\* the library's numbers lie, the number computed to ask for a band, leg or bus holds
\* what was set last for that one, under numbers computed to set.
THEOREM SettingsHold == signalsSpec => []SettingsMeet
<1>1. signalsInit => SettingsMeet
  BY DEF signalsInit, SettingsMeet, Same
<1>2. ASSUME SettingsMeet, [signalsNext]_signalsVars
      PROVE  SettingsMeet'
  <2>1. CASE UNCHANGED signalsVars
    BY <1>2, <2>1 DEF signalsVars, SettingsMeet, Same
  <2>2. CASE signalsNext
    <3>1. ASSUME NEW fields \in FieldsAtOnce PROVE fields \in SUBSET Fields
      <4>1. "BandBypass" \in Fields BY DEF Fields
      <4>2. fields \in SUBSET (Fields \ {"BandBypass"}) \/ fields = {"BandBypass"}
        BY <3>1 DEF FieldsAtOnce
      <4> QED BY <4>1, <4>2
    <3> QED BY <1>2, <2>2, <3>1, EqBandKeeps, AuxGainKeeps, BusAssignKeeps DEF signalsNext, AllFus
  <2> QED BY <1>2, <2>1, <2>2
<1> QED BY <1>1, <1>2, PTL DEF signalsSpec

\* The gain and the assignment of an aux leg, counted from the signal and from the bus,
\* belong to the same pair and side.
THEOREM AuxLegsMeet == AuxLegsAgree
<1> SUFFICES ASSUME NEW fu \in Fus("AUX")
             PROVE  \/ GainSet(fu) - AuxBegin["LevelL"] = BusSet(fu) - AuxBegin["OnOffL"] /\ fu % 2 = 0
                    \/ GainSet(fu) - AuxBegin["LevelR"] = BusSet(fu) - AuxBegin["OnOffR"] /\ fu % 2 # 0
  BY DEF AuxLegsAgree
<1> DEFINE q == Index(fu) \div 2
<1>1. q \in Nat /\ (fu % 2 = 0 <=> Index(fu) % 2 = 0) BY AuxIsPaired
<1>2. \A p \in AuxParts : AuxBegin[p] \in Nat BY NumbersAssumption
<1>3. CASE fu % 2 = 0
  <2>1. GainSet(fu) = AuxNumber("LevelL", q) /\ BusSet(fu) = AuxNumber("OnOffL", q)
    BY <1>1, <1>3, AuxIsPaired, SetIsAsked
  <2> QED BY <1>1, <1>2, <1>3, <2>1 DEF AuxNumber, AuxParts
<1>4. CASE fu % 2 # 0
  <2>1. GainSet(fu) = AuxNumber("LevelR", q) /\ BusSet(fu) = AuxNumber("OnOffR", q)
    BY <1>1, <1>4, AuxIsPaired, SetIsAsked
  <2> QED BY <1>1, <1>2, <1>4, <2>1 DEF AuxNumber, AuxParts
<1> QED BY <1>3, <1>4

-----------------------------------------------------------------------------
(* The session.                                                             *)

LEMMA SomeWayToStart == (CHOOSE s \in Starts : TRUE) \in Starts
<1> DEFINE kind == "mcx_get_dsp_channel_count"
           Dbs == {[SomeDb EXCEPT !.bundle = b] : b \in {0, 6, 8}}
<1>1. PICK fu : fu \in Signals BY SessionAssumption
<1>2. kind \in Reads /\ kind \in AllKinds /\ kind \notin Buttons \cup Checks \cup Configs
  BY KindsApart DEF Reads, AllKinds
<1>3. Inputs(kind) = Cons \X Dbs \X Signals BY <1>2 DEF Inputs, ReadInputs
<1>4. PICK con0 \in Cons, db0 \in Dbs : TRUE BY DEF Cons
<1> HIDE DEF Dbs
<1> DEFINE in == <<con0, db0, fu>>
<1>5. in \in Inputs(kind) BY <1>1, <1>3, <1>4
<1> HIDE DEF in, kind
<1>6. Start(kind, in) \in Starts
  <2> DEFINE Of(k) == {Start(k, i) : i \in Inputs(k)}
  <2>1. Start(kind, in) \in Of(kind) BY <1>5
  <2>2. Starts = UNION {Of(k) : k \in AllKinds} BY StartsAreInputs
  <2> HIDE DEF Of
  <2>3. Of(kind) \in {Of(k) : k \in AllKinds} BY <1>2
  <2> QED BY <2>1, <2>2, <2>3
<1> QED BY <1>6

LEMMA SessionUsesParts == Spec => mcxSpec /\ filesSpec /\ signalsSpec
<1>1. Init => mcxInit /\ filesInit /\ signalsInit BY SomeWayToStart DEF Init, mcxInit
<1>2. [Next]_vars => [mcxNext]_mcxVars /\ [filesNext]_filesVars
                       /\ [signalsNext]_signalsVars
  BY DEF Next, vars
<1> QED BY <1>1, <1>2, PTL DEF Spec, mcxSpec, filesSpec, signalsSpec

\* What the run of the session checks holds for every value of its constants, of
\* whichever part of mcx.py its behaviours use.
THEOREM McxSessionIsSafe ==
  Spec => [](/\ ButtonsTellTheTruth /\ CheckedIsInForce /\ ConfigKeepsOthers /\ ReadsFit
             /\ OkIsCarriedOut /\ SettingsMeet)
BY SessionUsesParts, ButtonsAreTrue, SettingsAreInForce, OthersConfigIsKept, QuestionsFit,
   ReturnedIsCarriedOut, SettingsHold, PTL
=============================================================================
