------------------------- MODULE ResourceFileProofs -------------------------
(* What ResourceFile guarantees for any number of calls and processes, any   *)
(* requests and anything other programs write.                               *)
EXTENDS ResourceFile, TLAPS

\* A call past its first look knows its request and what it makes of it.
CallInv ==
  \A c \in Calls :
    /\ pc[c] # "idle" => request[c] \in Requests
    /\ pc[c] \in {"stage", "check", "link", "unstage"} =>
         request[c].kind # "delete" /\ mode[c] \in {"create", "replace"}
    /\ pc[c] \in {"move", "moved", "discard", "restore", "unhold"} =>
         mode[c] \in {"replace", "delete"}
    /\ mode[c] = "replace" => request[c].kind # "delete"
    /\ mode[c] \in {"replace", "delete"} => Expects(c) # None
    /\ pc[c] \in {"idle", "look"} => mode[c] = "none"

\* What a call holds aside: nothing before it moves the file, and exactly what
\* its caller expects once that is verified.
HeldInv ==
  \A c \in Calls :
    /\ pc[c] \in {"idle", "look", "stage", "check", "move"} => held[c] = None
    /\ pc[c] \in {"moved", "restore", "unhold"} => held[c] # None
    /\ pc[c] \in {"link", "unstage"} /\ mode[c] = "replace" => held[c] = Expects(c)
    /\ pc[c] = "discard" => held[c] = Expects(c)

\* The version x is in c's hands: moved aside, or used up by c's success.
Claims(c, x) ==
  \/ pc[c] \in {"moved", "link", "unstage", "discard", "restore"} /\ held[c] = x
  \/ pc[c] \in {"confirm", "ok"} /\ mode[c] \in {"replace", "delete"} /\ Expects(c) = x

\* A version nobody writes again is at the path or in the hands of one call.
ClaimInv ==
  \A x \in Contents \ (Written \cup {None}) :
    /\ \A c \in Calls : Claims(c, x) => target # x
    /\ \A c, d \in Calls : Claims(c, x) /\ Claims(d, x) => c = d

\* Between a call's rename and its link the path may be missing.
GapInv ==
  target = None /\ ~excused =>
    \E c \in Calls : \/ pc[c] \in {"moved", "restore"}
                     \/ pc[c] = "link" /\ mode[c] = "replace"
                     \/ pc[c] = "discard" /\ mode[c] = "delete"

IInv == TypeOK /\ CallInv /\ HeldInv /\ ClaimInv /\ GapInv

-----------------------------------------------------------------------------
\* What may be asked of a call is a request, and speaks of contents.
LEMMA RequestTypes ==
  /\ \A c \in Calls : Asks[c] \subseteq Requests
  /\ \A r \in Requests :
       /\ r.content \in Contents /\ r.expects \in Contents
       /\ r.content \in Written
       /\ r.kind # "delete" => r.content # None
       /\ r.kind = "delete" => r.expects # None
  /\ None \in Contents /\ Initial \subseteq Contents /\ Foreign \subseteq Contents
  /\ Foreign \subseteq Written
BY RequestsAssumption DEF Requests, Contents, Written

\* The first state satisfies the invariant.
LEMMA InitInv == Init => IInv
BY RequestTypes
   DEF Init, IInv, TypeOK, CallInv, HeldInv, ClaimInv, Claims, GapInv, Steps, Ends

\* What Look can decide: a deletion is never taken for a write, and only content
\* that is there is moved aside.
LEMMA Decisions ==
  ASSUME NEW r \in Requests
  PROVE  /\ Decision(r) \in {"ok", "error", "create", "replace", "delete"}
         /\ Decision(r) \in {"create", "replace"} => r.kind # "delete"
         /\ Decision(r) = "delete" => r.kind = "delete"
         /\ Decision(r) = "replace" => target # None /\ r.expects = target
BY DEF Decision

\* Every step keeps the variables in their types.
LEMMA TypeOKStep == IInv /\ [Next]_vars => TypeOK'
<1> SUFFICES ASSUME IInv, [Next]_vars PROVE TypeOK'
  OBVIOUS
<1> USE RequestTypes DEF IInv, TypeOK, Steps, Ends
<1>1. CASE UNCHANGED vars
  BY <1>1 DEF vars
<1>2. ASSUME NEW c \in Calls, NEW r \in Asks[c], Enter(c, r) PROVE TypeOK'
  BY <1>2 DEF Enter, Goto
<1>3. ASSUME NEW c \in Calls, Look(c) PROVE TypeOK'
  <2>1. request[c] \in Requests /\ held[c] = None
    BY <1>3 DEF Look, CallInv, HeldInv
  <2>2. Decision(request[c]) \in {"ok", "error", "create", "replace", "delete"}
    BY <2>1, Decisions
  <2>. QED
    BY <1>3, <2>1, <2>2 DEF Look, Goto
<1>4. ASSUME NEW c \in Calls, Stage(c) PROVE TypeOK'
  BY <1>4 DEF Stage, Goto
<1>5. ASSUME NEW c \in Calls, Check(c) PROVE TypeOK'
  BY <1>5 DEF Check, Goto
<1>6. ASSUME NEW c \in Calls, Move(c) PROVE TypeOK'
  BY <1>6 DEF Move, Goto, CallInv
<1>7. ASSUME NEW c \in Calls, Verify(c) PROVE TypeOK'
  BY <1>7 DEF Verify, Goto
<1>8. ASSUME NEW c \in Calls, Link(c) PROVE TypeOK'
  BY <1>8 DEF Link, Goto, CallInv
<1>9. ASSUME NEW c \in Calls, Unstage(c) PROVE TypeOK'
  BY <1>9 DEF Unstage, Goto, Installed
<1>10. ASSUME NEW c \in Calls, Discard(c) PROVE TypeOK'
  BY <1>10 DEF Discard, Goto, Installed
<1>11. ASSUME NEW c \in Calls, Confirm(c) PROVE TypeOK'
  BY <1>11 DEF Confirm, Goto
<1>12. ASSUME NEW c \in Calls, Restore(c) PROVE TypeOK'
  BY <1>12 DEF Restore, Goto
<1>13. ASSUME NEW c \in Calls, Unhold(c) PROVE TypeOK'
  BY <1>13 DEF Unhold, Goto
<1>14. ASSUME NEW c \in Calls, Clean(c) PROVE TypeOK'
  BY <1>14 DEF Clean, Goto
<1>15. ASSUME NEW c \in Calls, Fail(c) PROVE TypeOK'
  BY <1>15 DEF Fail, Goto
<1>16. ASSUME NEW c \in Calls, Crash(c) PROVE TypeOK'
  BY <1>16 DEF Crash, Goto
<1>17. CASE ForeignWrite
  BY <1>17 DEF ForeignWrite
<1>. QED
  BY <1>1, <1>2, <1>3, <1>4, <1>5, <1>6, <1>7, <1>8, <1>9, <1>10, <1>11, <1>12, <1>13, <1>14, <1>15, <1>16, <1>17
     DEF Next, Write, Recover

\* Every step keeps what a call knows.
LEMMA CallStep == IInv /\ [Next]_vars => CallInv'
<1> SUFFICES ASSUME IInv, [Next]_vars PROVE CallInv'
  OBVIOUS
<1> USE RequestTypes DEF IInv, TypeOK, CallInv, Expects, Steps, Ends
<1>1. CASE UNCHANGED vars
  BY <1>1 DEF vars
<1>2. ASSUME NEW c \in Calls, NEW r \in Asks[c], Enter(c, r) PROVE CallInv'
  BY <1>2 DEF Enter, Goto
<1>3. ASSUME NEW c \in Calls, Look(c) PROVE CallInv'
  BY <1>3, Decisions DEF Look, Goto
<1>4. ASSUME NEW c \in Calls, Stage(c) PROVE CallInv'
  BY <1>4 DEF Stage, Goto
<1>5. ASSUME NEW c \in Calls, Check(c) PROVE CallInv'
  BY <1>5 DEF Check, Goto
<1>6. ASSUME NEW c \in Calls, Move(c) PROVE CallInv'
  BY <1>6 DEF Move, Goto
<1>7. ASSUME NEW c \in Calls, Verify(c) PROVE CallInv'
  BY <1>7 DEF Verify, Goto
<1>8. ASSUME NEW c \in Calls, Link(c) PROVE CallInv'
  BY <1>8 DEF Link, Goto
<1>9. ASSUME NEW c \in Calls, Unstage(c) PROVE CallInv'
  BY <1>9 DEF Unstage, Goto, Installed
<1>10. ASSUME NEW c \in Calls, Discard(c) PROVE CallInv'
  BY <1>10 DEF Discard, Goto, Installed
<1>11. ASSUME NEW c \in Calls, Confirm(c) PROVE CallInv'
  BY <1>11 DEF Confirm, Goto
<1>12. ASSUME NEW c \in Calls, Restore(c) PROVE CallInv'
  BY <1>12 DEF Restore, Goto
<1>13. ASSUME NEW c \in Calls, Unhold(c) PROVE CallInv'
  BY <1>13 DEF Unhold, Goto
<1>14. ASSUME NEW c \in Calls, Clean(c) PROVE CallInv'
  BY <1>14 DEF Clean, Goto
<1>15. ASSUME NEW c \in Calls, Fail(c) PROVE CallInv'
  BY <1>15 DEF Fail, Goto, Active
<1>16. ASSUME NEW c \in Calls, Crash(c) PROVE CallInv'
  BY <1>16 DEF Crash, Goto, Active
<1>17. CASE ForeignWrite
  BY <1>17 DEF ForeignWrite
<1>. QED
  BY <1>1, <1>2, <1>3, <1>4, <1>5, <1>6, <1>7, <1>8, <1>9, <1>10, <1>11, <1>12, <1>13, <1>14, <1>15, <1>16, <1>17
     DEF Next, Write, Recover

\* Every step keeps what a call holds aside.
LEMMA HeldStep == IInv /\ [Next]_vars => HeldInv'
<1> SUFFICES ASSUME IInv, [Next]_vars PROVE HeldInv'
  OBVIOUS
<1> USE RequestTypes DEF IInv, TypeOK, CallInv, HeldInv, Expects, Steps, Ends
<1>1. CASE UNCHANGED vars
  BY <1>1 DEF vars
<1>2. ASSUME NEW c \in Calls, NEW r \in Asks[c], Enter(c, r) PROVE HeldInv'
  BY <1>2 DEF Enter, Goto
<1>3. ASSUME NEW c \in Calls, Look(c) PROVE HeldInv'
  BY <1>3, Decisions DEF Look, Goto
<1>4. ASSUME NEW c \in Calls, Stage(c) PROVE HeldInv'
  BY <1>4 DEF Stage, Goto
<1>5. ASSUME NEW c \in Calls, Check(c) PROVE HeldInv'
  BY <1>5 DEF Check, Goto
<1>6. ASSUME NEW c \in Calls, Move(c) PROVE HeldInv'
  BY <1>6 DEF Move, Goto
<1>7. ASSUME NEW c \in Calls, Verify(c) PROVE HeldInv'
  <2>1. CASE held[c] # Expects(c)
    BY <1>7, <2>1 DEF Verify, Goto
  <2>2. CASE held[c] = Expects(c) /\ mode[c] = "delete"
    BY <1>7, <2>2 DEF Verify, Goto
  <2>3. CASE held[c] = Expects(c) /\ mode[c] # "delete"
    BY <1>7, <2>3 DEF Verify, Goto
  <2>. QED
    BY <2>1, <2>2, <2>3
<1>8. ASSUME NEW c \in Calls, Link(c) PROVE HeldInv'
  <2>1. CASE target = None
    BY <1>8, <2>1 DEF Link, Goto
  <2>2. CASE target # None /\ mode[c] = "create"
    BY <1>8, <2>2 DEF Link, Goto
  <2>3. CASE target # None /\ mode[c] # "create"
    BY <1>8, <2>3 DEF Link, Goto
  <2>. QED
    BY <2>1, <2>2, <2>3
<1>9. ASSUME NEW c \in Calls, Unstage(c) PROVE HeldInv'
  BY <1>9 DEF Unstage, Goto, Installed
<1>10. ASSUME NEW c \in Calls, Discard(c) PROVE HeldInv'
  BY <1>10 DEF Discard, Goto, Installed
<1>11. ASSUME NEW c \in Calls, Confirm(c) PROVE HeldInv'
  BY <1>11 DEF Confirm, Goto
<1>12. ASSUME NEW c \in Calls, Restore(c) PROVE HeldInv'
  BY <1>12 DEF Restore, Goto
<1>13. ASSUME NEW c \in Calls, Unhold(c) PROVE HeldInv'
  BY <1>13 DEF Unhold, Goto
<1>14. ASSUME NEW c \in Calls, Clean(c) PROVE HeldInv'
  BY <1>14 DEF Clean, Goto
<1>15. ASSUME NEW c \in Calls, Fail(c) PROVE HeldInv'
  <2>1. CASE pc[c] \in {"moved", "link", "unstage", "discard"} /\ mode[c] # "create"
    BY <1>15, <2>1 DEF Fail, Goto, Active
  <2>2. CASE ~(pc[c] \in {"moved", "link", "unstage", "discard"} /\ mode[c] # "create")
    BY <1>15, <2>2 DEF Fail, Goto, Active
  <2>. QED
    BY <2>1, <2>2
<1>16. ASSUME NEW c \in Calls, Crash(c) PROVE HeldInv'
  BY <1>16 DEF Crash, Goto, Active
<1>17. CASE ForeignWrite
  BY <1>17 DEF ForeignWrite
<1>. QED
  BY <1>1, <1>2, <1>3, <1>4, <1>5, <1>6, <1>7, <1>8, <1>9, <1>10, <1>11, <1>12, <1>13, <1>14, <1>15, <1>16, <1>17
     DEF Next, Write, Recover

\* Every step keeps a version in one place.
LEMMA ClaimStep == IInv /\ [Next]_vars => ClaimInv'
<1> SUFFICES ASSUME IInv, [Next]_vars PROVE ClaimInv'
  OBVIOUS
<1> USE RequestTypes DEF IInv, TypeOK, CallInv, HeldInv, ClaimInv, Claims, Expects, Steps, Ends
<1>1. CASE UNCHANGED vars
  BY <1>1 DEF vars
<1>2. ASSUME NEW c \in Calls, NEW r \in Asks[c], Enter(c, r) PROVE ClaimInv'
  BY <1>2 DEF Enter, Goto
<1>3. ASSUME NEW c \in Calls, Look(c) PROVE ClaimInv'
  BY <1>3, Decisions DEF Look, Goto
<1>4. ASSUME NEW c \in Calls, Stage(c) PROVE ClaimInv'
  BY <1>4 DEF Stage, Goto
<1>5. ASSUME NEW c \in Calls, Check(c) PROVE ClaimInv'
  BY <1>5 DEF Check, Goto
<1>6. ASSUME NEW c \in Calls, Move(c) PROVE ClaimInv'
  BY <1>6 DEF Move, Goto
<1>7. ASSUME NEW c \in Calls, Verify(c) PROVE ClaimInv'
  BY <1>7 DEF Verify, Goto
<1>8. ASSUME NEW c \in Calls, Link(c) PROVE ClaimInv'
  BY <1>8 DEF Link, Goto
<1>9. ASSUME NEW c \in Calls, Unstage(c) PROVE ClaimInv'
  BY <1>9 DEF Unstage, Goto, Installed
<1>10. ASSUME NEW c \in Calls, Discard(c) PROVE ClaimInv'
  BY <1>10 DEF Discard, Goto, Installed
<1>11. ASSUME NEW c \in Calls, Confirm(c) PROVE ClaimInv'
  BY <1>11 DEF Confirm, Goto
<1>12. ASSUME NEW c \in Calls, Restore(c) PROVE ClaimInv'
  BY <1>12 DEF Restore, Goto
<1>13. ASSUME NEW c \in Calls, Unhold(c) PROVE ClaimInv'
  BY <1>13 DEF Unhold, Goto
<1>14. ASSUME NEW c \in Calls, Clean(c) PROVE ClaimInv'
  BY <1>14 DEF Clean, Goto
<1>15. ASSUME NEW c \in Calls, Fail(c) PROVE ClaimInv'
  BY <1>15 DEF Fail, Goto, Active
<1>16. ASSUME NEW c \in Calls, Crash(c) PROVE ClaimInv'
  BY <1>16 DEF Crash, Goto, Active
<1>17. CASE ForeignWrite
  BY <1>17 DEF ForeignWrite
<1>. QED
  BY <1>1, <1>2, <1>3, <1>4, <1>5, <1>6, <1>7, <1>8, <1>9, <1>10, <1>11, <1>12, <1>13, <1>14, <1>15, <1>16, <1>17
     DEF Next, Write, Recover

\* Every step keeps a call at work while the path is missing.
LEMMA GapStep == IInv /\ [Next]_vars => GapInv'
<1> SUFFICES ASSUME IInv, [Next]_vars PROVE GapInv'
  OBVIOUS
<1> USE RequestTypes DEF IInv, TypeOK, CallInv, HeldInv, GapInv, Steps, Ends
<1>1. CASE UNCHANGED vars
  BY <1>1 DEF vars
<1>2. ASSUME NEW c \in Calls, NEW r \in Asks[c], Enter(c, r) PROVE GapInv'
  BY <1>2 DEF Enter, Goto
<1>3. ASSUME NEW c \in Calls, Look(c) PROVE GapInv'
  BY <1>3, Decisions DEF Look, Goto
<1>4. ASSUME NEW c \in Calls, Stage(c) PROVE GapInv'
  BY <1>4 DEF Stage, Goto
<1>5. ASSUME NEW c \in Calls, Check(c) PROVE GapInv'
  BY <1>5 DEF Check, Goto
<1>6. ASSUME NEW c \in Calls, Move(c) PROVE GapInv'
  BY <1>6 DEF Move, Goto
<1>7. ASSUME NEW c \in Calls, Verify(c) PROVE GapInv'
  BY <1>7 DEF Verify, Goto
<1>8. ASSUME NEW c \in Calls, Link(c) PROVE GapInv'
  BY <1>8 DEF Link, Goto
<1>9. ASSUME NEW c \in Calls, Unstage(c) PROVE GapInv'
  BY <1>9 DEF Unstage, Goto, Installed
<1>10. ASSUME NEW c \in Calls, Discard(c) PROVE GapInv'
  BY <1>10 DEF Discard, Goto, Installed
<1>11. ASSUME NEW c \in Calls, Confirm(c) PROVE GapInv'
  BY <1>11 DEF Confirm, Goto
<1>12. ASSUME NEW c \in Calls, Restore(c) PROVE GapInv'
  BY <1>12 DEF Restore, Goto
<1>13. ASSUME NEW c \in Calls, Unhold(c) PROVE GapInv'
  BY <1>13 DEF Unhold, Goto
<1>14. ASSUME NEW c \in Calls, Clean(c) PROVE GapInv'
  BY <1>14 DEF Clean, Goto
<1>15. ASSUME NEW c \in Calls, Fail(c) PROVE GapInv'
  BY <1>15 DEF Fail, Goto, Active
<1>16. ASSUME NEW c \in Calls, Crash(c) PROVE GapInv'
  BY <1>16 DEF Crash, Goto, Active
<1>17. CASE ForeignWrite
  BY <1>17 DEF ForeignWrite
<1>. QED
  BY <1>1, <1>2, <1>3, <1>4, <1>5, <1>6, <1>7, <1>8, <1>9, <1>10, <1>11, <1>12, <1>13, <1>14, <1>15, <1>16, <1>17
     DEF Next, Write, Recover

\* The inductive invariant of the guarded single-file writes.
THEOREM Invariance == Spec => []IInv
<1>1. IInv /\ [Next]_vars => IInv'
  BY TypeOKStep, CallStep, HeldStep, ClaimStep, GapStep DEF IInv
<1>. QED
  BY InitInv, <1>1, PTL DEF Spec

\* Every variable keeps its type, and only replacements and deletions move.
THEOREM TypeCorrect == Spec => []TypeOK
<1>1. IInv => TypeOK
  BY DEF IInv
<1>. QED
  BY Invariance, <1>1, PTL

\* Of the calls that expect one version, at most one replaces or deletes it
\* (OneWinner): the compare-and-swap needs no lock between processes.
THEOREM NoLostUpdate == Spec => []OneWinner
<1>1. IInv => OneWinner
  <2> SUFFICES ASSUME IInv, NEW c \in Calls, NEW d \in Calls, Won(c), Won(d),
                      Expects(c) = Expects(d), Expects(c) \notin Written
               PROVE c = d
    BY DEF OneWinner
  <2>1. Expects(c) \in Contents \ (Written \cup {None})
    BY RequestTypes DEF IInv, CallInv, HeldInv, Won, Expects
  <2>2. Claims(c, Expects(c)) /\ Claims(d, Expects(c))
    BY DEF Claims, Won
  <2>. QED
    BY <2>1, <2>2 DEF IInv, ClaimInv
<1>. QED
  BY Invariance, <1>1, PTL

\* A refused call leaves the file in its place (NeverMissing).
THEOREM RefusalRestores == Spec => []NeverMissing
<1>1. IInv => NeverMissing
  BY DEF IInv, GapInv, NeverMissing
<1>. QED
  BY Invariance, <1>1, PTL

\* No call destroys content its caller did not name (NothingLost).
THEOREM NoContentLost == Spec => NothingLost
<1>1. ASSUME IInv, [Next]_vars, NEW d \in Calls, NEW x \in Contents \ {None},
             pc'[d] # pc[d], Exists(x), ~Exists(x)'
      PROVE  x = Expects(d) \/ pc[d] = "unhold"
  <2> USE <1>1 DEF IInv, TypeOK, Exists
  <2>1. ASSUME NEW c \in Calls, Stage(c) PROVE x = Expects(d) \/ pc[d] = "unhold"
    BY <2>1 DEF Stage, Goto
  <2>2. ASSUME NEW c \in Calls, Check(c) PROVE x = Expects(d) \/ pc[d] = "unhold"
    BY <2>2 DEF Check, Goto
  <2>3. ASSUME NEW c \in Calls, Move(c) PROVE x = Expects(d) \/ pc[d] = "unhold"
    BY <2>3 DEF Move, Goto, CallInv, HeldInv
  <2>4. ASSUME NEW c \in Calls, Verify(c) PROVE x = Expects(d) \/ pc[d] = "unhold"
    BY <2>4 DEF Verify, Goto
  <2>5. ASSUME NEW c \in Calls, Link(c) PROVE x = Expects(d) \/ pc[d] = "unhold"
    BY <2>5 DEF Link, Goto
  <2>6. ASSUME NEW c \in Calls, Unstage(c) PROVE x = Expects(d) \/ pc[d] = "unhold"
    BY <2>6 DEF Unstage, Goto
  <2>7. ASSUME NEW c \in Calls, Discard(c) PROVE x = Expects(d) \/ pc[d] = "unhold"
    BY <2>7 DEF Discard, Goto, HeldInv
  <2>8. ASSUME NEW c \in Calls, Confirm(c) PROVE x = Expects(d) \/ pc[d] = "unhold"
    BY <2>8 DEF Confirm, Goto
  <2>9. ASSUME NEW c \in Calls, Restore(c) PROVE x = Expects(d) \/ pc[d] = "unhold"
    BY <2>9 DEF Restore, Goto
  <2>10. ASSUME NEW c \in Calls, Unhold(c) PROVE x = Expects(d) \/ pc[d] = "unhold"
    BY <2>10 DEF Unhold, Goto
  <2>11. ASSUME NEW c \in Calls, Clean(c) PROVE x = Expects(d) \/ pc[d] = "unhold"
    BY <2>11 DEF Clean, Goto
  <2>12. ASSUME NEW c \in Calls, Fail(c) PROVE x = Expects(d) \/ pc[d] = "unhold"
    BY <2>12 DEF Fail, Goto
  <2>13. ASSUME NEW c \in Calls, Crash(c) PROVE x = Expects(d) \/ pc[d] = "unhold"
    BY <2>13 DEF Crash, Goto
  <2>14. ASSUME NEW c \in Calls, Look(c) PROVE x = Expects(d) \/ pc[d] = "unhold"
    BY <2>14 DEF Look, Goto
  <2>15. ASSUME NEW c \in Calls, NEW r \in Asks[c], Enter(c, r)
        PROVE x = Expects(d) \/ pc[d] = "unhold"
    BY <2>15 DEF Enter, Goto
  <2>16. CASE UNCHANGED vars \/ ForeignWrite
    BY <2>16 DEF vars, ForeignWrite
  <2>. QED
    BY <2>1, <2>2, <2>3, <2>4, <2>5, <2>6, <2>7, <2>8, <2>9, <2>10, <2>11, <2>12, <2>13, <2>14, <2>15, <2>16
       DEF Next, Write, Recover
<1>2. IInv /\ [Next]_vars =>
        [\A c \in Calls, x \in Contents \ {None} :
           pc'[c] # pc[c] /\ Exists(x) /\ ~Exists(x)'
             => x = Expects(c) \/ pc[c] = "unhold"]_vars
  BY <1>1
<1>. QED
  BY Invariance, <1>2, PTL DEF Spec, NothingLost
=============================================================================
