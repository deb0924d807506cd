--------------------------- MODULE WasmCalls_proofs ---------------------------
(***************************************************************************)
(* Proof that goroutines sharing documents get their own results and are   *)
(* not cut short, for any number of documents and goroutines.              *)
(***************************************************************************)
EXTENDS WasmCalls, TLAPS

\* Two goroutines are never inside methods of the same document.
LEMMA Exclusion ==
    ASSUME TypeOK, InsideOwns, NEW t \in Thread, NEW u \in Thread \ {t},
           thr[t].pc \in Holding, thr[u].pc \in Holding
    PROVE  thr[t].doc # thr[u].doc
BY DEF InsideOwns

\* A call that stays inside its method may change the state of its document's
\* engine and its own record; the others are not concerned.
LEMMA InsideStep ==
    ASSUME CallsInv, NEW t \in Thread, thr[t].pc \in Holding,
           owner' = owner,
           NEW i \in Instance, inst' = [inst EXCEPT ![thr[t].doc] = i],
           NEW c \in Call, thr' = [thr EXCEPT ![t] = c],
           c.doc = thr[t].doc, c.pc \in Holding,
           c.got \in {Nobody, t},
           c.pc \in {"copy", "hash"} => i.buf = t,
           c.pc \in {"copy", "empty", "hash", "lastError"} => i.state = "live"
    PROVE  CallsInv'
<1>1. TypeOK /\ InsideOwns /\ BufferIsOwn /\ OwnResult /\ NotCutShort
  BY DEF CallsInv
<1>2. /\ thr \in [Thread -> Call] /\ inst \in [Doc -> Instance]
      /\ owner \in [Doc -> Thread \cup {Nobody}] /\ thr[t].doc \in Doc
  BY <1>1 DEF TypeOK, Call
<1>3. /\ thr'[t] = c /\ inst'[thr[t].doc] = i
      /\ \A u \in Thread \ {t} : thr'[u] = thr[u]
      /\ \A d \in Doc \ {thr[t].doc} : inst'[d] = inst[d]
  BY <1>2
<1>4. TypeOK'
  BY <1>1, <1>2 DEF TypeOK
<1>5. ASSUME NEW u \in Thread \ {t}, thr[u].pc \in Holding
      PROVE  inst'[thr[u].doc] = inst[thr[u].doc]
  <2>1. thr[u].doc \in Doc
    BY <1>2 DEF Call
  <2>. QED
    BY <1>1, <1>3, <1>5, <2>1, Exclusion
<1>6. InsideOwns'
  BY <1>1, <1>3 DEF InsideOwns
<1>7. BufferIsOwn'
  <2> SUFFICES ASSUME NEW u \in Thread, thr'[u].pc \in {"copy", "hash"}
               PROVE  inst'[thr'[u].doc].buf = u
    BY DEF BufferIsOwn
  <2>. QED
    BY <1>1, <1>3, <1>5 DEF BufferIsOwn, Holding
<1>8. OwnResult'
  BY <1>1, <1>3 DEF OwnResult
<1>9. NotCutShort'
  <2> SUFFICES ASSUME NEW u \in Thread,
                      thr'[u].pc \in {"copy", "empty", "hash", "lastError"}
               PROVE  inst'[thr'[u].doc].state = "live"
    BY DEF NotCutShort, Live
  <2>. QED
    BY <1>1, <1>3, <1>5 DEF NotCutShort, Live, Holding
<1>. QED
  BY <1>4, <1>6, <1>7, <1>8, <1>9 DEF CallsInv

-----------------------------------------------------------------------------

\* Initially nobody is inside a method.
LEMMA InitInv == Init => CallsInv
<1> SUFFICES ASSUME Init PROVE CallsInv
  OBVIOUS
<1>1. AnyDoc \in Doc
  BY TagAssumption DEF AnyDoc
<1>2. Idle \in Call
  BY <1>1 DEF Idle, Call, Op, Tag
<1>3. TypeOK
  BY <1>2 DEF Init, TypeOK, Instance, Tag
<1>4. \A t \in Thread : thr[t].pc = "idle" /\ thr[t].got = Nobody
  BY DEF Init, Idle
<1>. QED
  BY <1>3, <1>4 DEF CallsInv, InsideOwns, BufferIsOwn, OwnResult, NotCutShort, Holding

\* Calling a method and waiting for its mutex.
LEMMA BeginStep ==
    ASSUME CallsInv, NEW t \in Thread, NEW op \in Op, NEW d \in Doc, NEW d2 \in Doc,
           Begin(t, op, d, d2)
    PROVE  CallsInv'
<1> DEFINE c == [pc |-> "lock", op |-> op, doc |-> d2, into |-> d,
                 part |-> IF op = "merge" THEN 1 ELSE 2,
                 got |-> Nobody, msg |-> Nobody, out |-> "none"]
<1>1. thr' = [thr EXCEPT ![t] = c] /\ owner' = owner /\ inst' = inst
  BY DEF Begin
<1>2. c \in Call /\ c.pc = "lock" /\ c.got = Nobody
  BY DEF Call, Tag
<1> HIDE DEF c
<1>3. thr \in [Thread -> Call] /\ thr' \in [Thread -> Call] /\ thr'[t] = c
      /\ \A u \in Thread \ {t} : thr'[u] = thr[u]
  BY <1>1, <1>2 DEF CallsInv, TypeOK
<1>4. TypeOK'
  BY <1>1, <1>3 DEF CallsInv, TypeOK
<1>5. InsideOwns' /\ BufferIsOwn' /\ OwnResult' /\ NotCutShort'
  BY <1>1, <1>2, <1>3 DEF CallsInv, InsideOwns, BufferIsOwn, OwnResult, NotCutShort,
     Holding, Live
<1>. QED
  BY <1>4, <1>5 DEF CallsInv

\* A goroutine enters a method: nobody else was inside, and it has neither
\* a result nor a fetch in progress.
LEMMA LockStep ==
    ASSUME CallsInv, NEW t \in Thread, Lock(t)
    PROVE  CallsInv'
<1>1. /\ thr \in [Thread -> Call] /\ thr[t] \in Call /\ thr[t].doc \in Doc
      /\ owner \in [Doc -> Thread \cup {Nobody}]
  BY DEF CallsInv, TypeOK, Call
<1> DEFINE c == [thr[t] EXCEPT !.pc = "call"]
<1>2. /\ thr' = [thr EXCEPT ![t] = c] /\ inst' = inst
      /\ owner' = [owner EXCEPT ![thr[t].doc] = t] /\ owner[thr[t].doc] = Nobody
  BY DEF Lock
<1>3. c \in Call /\ c.pc = "call" /\ c.got = thr[t].got /\ c.doc = thr[t].doc
  BY <1>1 DEF Call
<1> HIDE DEF c
<1>4. /\ thr' \in [Thread -> Call] /\ thr'[t] = c
      /\ \A u \in Thread \ {t} : thr'[u] = thr[u]
      /\ owner' \in [Doc -> Thread \cup {Nobody}]
      /\ owner'[thr[t].doc] = t /\ \A d \in Doc \ {thr[t].doc} : owner'[d] = owner[d]
  BY <1>1, <1>2, <1>3
<1>5. TypeOK'
  BY <1>2, <1>4 DEF CallsInv, TypeOK
<1>6. InsideOwns'
  <2> SUFFICES ASSUME NEW u \in Thread, thr'[u].pc \in Holding
               PROVE  owner'[thr'[u].doc] = u
    BY DEF InsideOwns
  <2>1. CASE u = t
    BY <1>3, <1>4, <2>1
  <2>2. CASE u # t
    <3>1. owner[thr[u].doc] = u /\ thr[u].doc \in Doc
      BY <1>1, <1>4, <2>2 DEF CallsInv, InsideOwns, Call
    <3>. QED
      BY <1>2, <1>4, <2>2, <3>1, TagAssumption
  <2>. QED
    BY <2>1, <2>2
<1>7. BufferIsOwn' /\ OwnResult' /\ NotCutShort'
  BY <1>2, <1>3, <1>4 DEF CallsInv, BufferIsOwn, OwnResult, NotCutShort, Live
<1>. QED
  BY <1>5, <1>6, <1>7 DEF CallsInv

\* A trap ends the call with an error and changes the engine's state only.
LEMMA TrapGood ==
    ASSUME NEW t \in Thread, thr \in [Thread -> Call], inst \in [Doc -> Instance],
           thr[t] \in Call, thr[t].doc \in Doc, inst[thr[t].doc] \in Instance, Trap(t)
    PROVE  /\ inst' = [inst EXCEPT ![thr[t].doc] = inst'[thr[t].doc]]
           /\ inst'[thr[t].doc] \in Instance
           /\ thr' = [thr EXCEPT ![t] = thr'[t]] /\ thr'[t] \in Call
           /\ thr'[t].pc = "unlock" /\ thr'[t].doc = thr[t].doc /\ thr'[t].got = thr[t].got
<1>1. inst' = [inst EXCEPT ![thr[t].doc].state = "trapped"]
  BY DEF Trap
<1>2. thr' = [thr EXCEPT ![t].pc = "unlock", ![t].out = "error"]
  BY DEF Trap, Finish
<1>3. /\ inst'[thr[t].doc] \in Instance
      /\ inst' = [inst EXCEPT ![thr[t].doc] = inst'[thr[t].doc]]
  BY <1>1 DEF Instance
<1>4. /\ thr' = [thr EXCEPT ![t] = thr'[t]] /\ thr'[t] \in Call
      /\ thr'[t].pc = "unlock" /\ thr'[t].doc = thr[t].doc /\ thr'[t].got = thr[t].got
  BY <1>2 DEF Call
<1>. QED
  BY <1>3, <1>4

\* Engine calls, one lemma for all: what they do to the caller's record and
\* to the engine of the document it has locked.
LEMMA CallStep ==
    ASSUME CallsInv, NEW t \in Thread,
           \/ CallFails(t) \/ CallLen(t) \/ CallLenZero(t) \/ Copy(t)
           \/ CallCommit(t) \/ EmptyChange(t) \/ CommitHash(t)
           \/ CallEdit(t) \/ LastError(t) \/ CallApply(t) \/ CallMerge(t)
           \/ CallClose(t)
    PROVE  CallsInv'
<1> DEFINE d == thr[t].doc
           c == thr'[t]
           i == inst'[d]
<1>1. /\ thr \in [Thread -> Call] /\ thr[t] \in Call /\ d \in Doc
      /\ inst \in [Doc -> Instance] /\ inst[d] \in Instance
      /\ thr[t].got \in {Nobody, t}
      /\ thr[t].pc \in {"copy", "hash"} => inst[d].buf = t
      /\ thr[t].pc \in {"copy", "empty", "hash", "lastError"} => inst[d].state = "live"
  BY DEF CallsInv, TypeOK, Call, OwnResult, BufferIsOwn, NotCutShort, Live
<1> DEFINE Good ==
      /\ owner' = owner
      /\ inst' = [inst EXCEPT ![d] = i] /\ i \in Instance
      /\ thr' = [thr EXCEPT ![t] = c] /\ c \in Call
      /\ thr[t].pc \in Holding /\ c.doc = d /\ c.pc \in Holding
      /\ c.got \in {Nobody, t}
      /\ c.pc \in {"copy", "hash"} => i.buf = t
      /\ c.pc \in {"copy", "empty", "hash", "lastError"} => i.state = "live"
<1>2. CASE CallFails(t)
  <2>1. Good
    BY <1>1, <1>2 DEF CallFails, Calls, Finish, Holding, Call
  <2>. QED
    BY <2>1, InsideStep
<1>3. CASE CallLen(t)
  <2>1. Good
    BY <1>1, <1>3 DEF CallLen, Calls, Live, Holding, Call, Instance, Tag
  <2>. QED
    BY <2>1, InsideStep
<1>4. CASE CallLenZero(t)
  <2>1. PICK tag \in {t, inst[d].buf} : inst' = [inst EXCEPT ![d].buf = tag]
    BY <1>4 DEF CallLenZero
  <2>2. tag \in Tag
    BY <1>1 DEF Instance, Tag
  <2>3. Good
    BY <1>1, <1>4, <2>1, <2>2 DEF CallLenZero, Calls, Finish, Holding, Call, Instance
  <2>. QED
    BY <2>3, InsideStep
<1>5. CASE Copy(t)
  <2>1. Good
    BY <1>1, <1>5 DEF Copy, Holding, Call, Tag
  <2>. QED
    BY <2>1, InsideStep
<1>6. CASE CallCommit(t)
  <2>1. Good
    BY <1>1, <1>6 DEF CallCommit, Calls, Live, Finish, Holding, Call, Instance, Tag
  <2>. QED
    BY <2>1, InsideStep
<1>7. CASE EmptyChange(t)
  <2>1. Good
    BY <1>1, <1>7 DEF EmptyChange, Holding, Call, Instance, Tag
  <2>. QED
    BY <2>1, InsideStep
<1>8. CASE CommitHash(t)
  <2>1. Good
    BY <1>1, <1>8 DEF CommitHash, Holding, Call, Tag
  <2>. QED
    BY <2>1, InsideStep
<1>9. CASE CallEdit(t)
  <2>1. Good
    BY <1>1, <1>9 DEF CallEdit, Calls, Live, Finish, Holding, Call, Instance, Tag
  <2>. QED
    BY <2>1, InsideStep
<1>10. CASE LastError(t)
  <2>1. Good
    BY <1>1, <1>10 DEF LastError, Holding, Call, Instance
  <2>. QED
    BY <2>1, InsideStep
<1>11. CASE CallApply(t)
  <2>1. /\ owner' = owner /\ thr[t].pc = "call" /\ inst[d].state = "live"
        /\ \/ \E out \in {"ok", "error"} : Finish(t, out) /\ inst' = inst
           \/ Trap(t)
    BY <1>11 DEF CallApply, Calls, Live
  <2>2. ASSUME NEW out \in {"ok", "error"}, Finish(t, out), inst' = inst
        PROVE  Good
    BY <1>1, <2>1, <2>2 DEF Finish, Holding, Call
  <2>3. ASSUME Trap(t) PROVE Good
    BY <1>1, <2>1, <2>3, TrapGood DEF Holding
  <2>4. Good
    BY <2>1, <2>2, <2>3
  <2>. QED
    BY <2>4, InsideStep
<1>12. CASE CallMerge(t)
  <2>1. /\ owner' = owner /\ thr[t].pc = "call" /\ inst[d].state = "live"
        /\ \/ thr' = [thr EXCEPT ![t].part = 3] /\ inst' = inst
           \/ thr' = [thr EXCEPT ![t].pc = "lastError"] /\ inst' = inst
           \/ /\ inst' = [inst EXCEPT ![d].lastErr = t]
              /\ thr' = [thr EXCEPT ![t].pc = "lastError"]
           \/ Trap(t)
    BY <1>12 DEF CallMerge, Calls, Live
  <2>2. ASSUME thr' = [thr EXCEPT ![t].part = 3], inst' = inst
        PROVE  Good
    <3>1. [thr[t] EXCEPT !.part = 3] \in Call
      BY <1>1 DEF Call
    <3>2. thr'[t] = [thr[t] EXCEPT !.part = 3] /\ inst' = [inst EXCEPT ![d] = inst[d]]
      BY <1>1, <2>2
    <3>. QED
      BY <1>1, <2>1, <2>2, <3>1, <3>2 DEF Holding, Call
  <2>3. ASSUME thr' = [thr EXCEPT ![t].pc = "lastError"], inst' = inst
        PROVE  Good
    BY <1>1, <2>1, <2>3 DEF Holding, Call
  <2>4. ASSUME inst' = [inst EXCEPT ![d].lastErr = t],
               thr' = [thr EXCEPT ![t].pc = "lastError"]
        PROVE  Good
    BY <1>1, <2>1, <2>4 DEF Holding, Call, Instance, Tag
  <2>5. ASSUME Trap(t) PROVE Good
    BY <1>1, <2>1, <2>5, TrapGood DEF Holding
  <2>6. Good
    BY <2>1, <2>2, <2>3, <2>4, <2>5
  <2>. QED
    BY <2>6, InsideStep
<1>13. CASE CallClose(t)
  <2>1. Good
    BY <1>1, <1>13 DEF CallClose, Calls, Finish, Holding, Call, Instance
  <2>. QED
    BY <2>1, InsideStep
<1>. QED
  BY <1>2, <1>3, <1>4, <1>5, <1>6, <1>7, <1>8, <1>9, <1>10, <1>11, <1>12, <1>13

\* Releasing a mutex: the caller is no longer inside, nobody else was.
LEMMA ReleaseStep ==
    ASSUME CallsInv, NEW t \in Thread, thr[t].pc = "unlock",
           owner' = [owner EXCEPT ![thr[t].doc] = Nobody],
           NEW c \in Call, thr' = [thr EXCEPT ![t] = c],
           c.pc \notin Holding, c.got \in {Nobody, t},
           inst' \in [Doc -> Instance],
           \A d \in Doc : /\ inst'[d].state = inst[d].state
                          /\ inst[d].buf # t => inst'[d].buf = inst[d].buf
    PROVE  CallsInv'
<1>1. /\ thr \in [Thread -> Call] /\ thr[t] \in Call /\ thr[t].doc \in Doc
      /\ owner \in [Doc -> Thread \cup {Nobody}]
      /\ \A u \in Thread : thr[u].doc \in Doc
  BY DEF CallsInv, TypeOK, Call
<1>2. /\ thr' \in [Thread -> Call] /\ thr'[t] = c
      /\ \A u \in Thread \ {t} : thr'[u] = thr[u]
      /\ owner' \in [Doc -> Thread \cup {Nobody}]
      /\ \A d \in Doc \ {thr[t].doc} : owner'[d] = owner[d]
  BY <1>1
<1>3. TypeOK'
  BY <1>2 DEF TypeOK
<1>4. InsideOwns'
  <2> SUFFICES ASSUME NEW u \in Thread, thr'[u].pc \in Holding
               PROVE  owner'[thr'[u].doc] = u
    BY DEF InsideOwns
  <2>1. u # t /\ thr'[u] = thr[u]
    BY <1>2
  <2>2. thr[u].doc # thr[t].doc
    BY <2>1, Exclusion DEF CallsInv, Holding
  <2>. QED
    BY <1>1, <1>2, <2>1, <2>2 DEF CallsInv, InsideOwns
<1>5. BufferIsOwn'
  <2> SUFFICES ASSUME NEW u \in Thread, thr'[u].pc \in {"copy", "hash"}
               PROVE  inst'[thr'[u].doc].buf = u
    BY DEF BufferIsOwn
  <2>1. u # t /\ thr'[u] = thr[u]
    BY <1>2 DEF Holding
  <2>2. inst[thr[u].doc].buf = u /\ thr[u].doc \in Doc
    BY <1>1, <2>1 DEF CallsInv, BufferIsOwn
  <2>3. inst'[thr[u].doc].buf = inst[thr[u].doc].buf
    BY <2>1, <2>2
  <2>. QED
    BY <2>1, <2>2, <2>3
<1>6. OwnResult'
  BY <1>2 DEF CallsInv, OwnResult
<1>7. NotCutShort'
  <2> SUFFICES ASSUME NEW u \in Thread,
                      thr'[u].pc \in {"copy", "empty", "hash", "lastError"}
               PROVE  inst'[thr'[u].doc].state = "live"
    BY DEF NotCutShort, Live
  <2>1. u # t /\ thr'[u] = thr[u]
    BY <1>2 DEF Holding
  <2>2. inst[thr[u].doc].state = "live" /\ thr[u].doc \in Doc
    BY <1>1, <2>1 DEF CallsInv, NotCutShort, Live
  <2>3. inst'[thr[u].doc].state = inst[thr[u].doc].state
    BY <2>2
  <2>. QED
    BY <2>1, <2>2, <2>3
<1>. QED
  BY <1>3, <1>4, <1>5, <1>6, <1>7 DEF CallsInv

\* Merge leaves the document it has saved and queues for the other one.
LEMMA MergeUnlockStep ==
    ASSUME CallsInv, NEW t \in Thread, MergeUnlock(t)
    PROVE  CallsInv'
<1> DEFINE c == [thr[t] EXCEPT !.pc = "lock", !.doc = thr[t].into,
                               !.part = 2, !.out = "none"]
<1>1. thr \in [Thread -> Call] /\ thr[t] \in Call /\ inst \in [Doc -> Instance]
  BY DEF CallsInv, TypeOK
<1>2. /\ thr' = [thr EXCEPT ![t] = c] /\ inst' = inst /\ thr[t].pc = "unlock"
      /\ owner' = [owner EXCEPT ![thr[t].doc] = Nobody]
  BY <1>1 DEF MergeUnlock
<1>3. c \in Call /\ c.pc = "lock" /\ c.got = thr[t].got
  <2>1. thr[t].into \in Doc /\ 2 \in 1 .. 3
    BY <1>1 DEF Call
  <2>2. [thr[t] EXCEPT !.pc = "lock", !.doc = thr[t].into] \in Call
    BY <1>1, <2>1 DEF Call
  <2>3. c = [[thr[t] EXCEPT !.pc = "lock", !.doc = thr[t].into]
                 EXCEPT !.part = 2, !.out = "none"]
    BY <1>1 DEF Call
  <2>. QED
    BY <1>1, <2>1, <2>2, <2>3 DEF Call
<1>4. c.got \in {Nobody, t}
  BY <1>3 DEF CallsInv, OwnResult
<1>5. c.pc \notin Holding
  BY <1>3 DEF Holding
<1> HIDE DEF c
<1>. QED
  BY <1>1, <1>2, <1>3, <1>4, <1>5, ReleaseStep

\* A method returns; what it left in the engine ages, but only its own tags.
LEMMA UnlockStep ==
    ASSUME CallsInv, NEW t \in Thread, Unlock(t)
    PROVE  CallsInv'
<1>1. thr \in [Thread -> Call] /\ inst \in [Doc -> Instance]
  BY DEF CallsInv, TypeOK
<1>2. /\ thr' = [thr EXCEPT ![t] = Idle] /\ thr[t].pc = "unlock"
      /\ owner' = [owner EXCEPT ![thr[t].doc] = Nobody]
      /\ inst' = [d \in Doc |-> [inst[d] EXCEPT !.buf = Aged(t, @), !.lastErr = Aged(t, @)]]
  BY DEF Unlock
<1>3. Idle \in Call /\ Idle.pc \notin Holding /\ Idle.got = Nobody
  BY TagAssumption DEF Idle, AnyDoc, Call, Op, Tag, Holding
<1>4. inst' \in [Doc -> Instance]
  BY <1>1, <1>2 DEF Instance, Aged, Tag
<1>5. \A d \in Doc : /\ inst'[d].state = inst[d].state
                     /\ inst[d].buf # t => inst'[d].buf = inst[d].buf
  BY <1>1, <1>2 DEF Instance, Aged
<1>. QED
  BY <1>2, <1>3, <1>4, <1>5, ReleaseStep

-----------------------------------------------------------------------------

\* The invariant holds for all documents and goroutines.
THEOREM CallsInvariant == Spec => []CallsInv
<1>1. Init => CallsInv
  BY InitInv
<1>2. CallsInv /\ [Next]_vars => CallsInv'
  <2> SUFFICES ASSUME CallsInv, [Next]_vars PROVE CallsInv'
    OBVIOUS
  <2>1. CASE UNCHANGED vars
    BY <2>1 DEF vars, CallsInv, TypeOK, InsideOwns, BufferIsOwn, OwnResult, NotCutShort, Live
  <2>2. CASE Next
    BY <2>2, BeginStep, LockStep, CallStep, MergeUnlockStep, UnlockStep DEF Next, Work
  <2>. QED
    BY <2>1, <2>2
<1>. QED
  BY <1>1, <1>2, PTL DEF Spec

\* A method returns its own result: the mutex keeps the calls that compute and
\* the calls that fetch it together.
THEOREM ResultsAreOwn == Spec => []OwnResult
<1>1. CallsInv => OwnResult
  BY DEF CallsInv
<1>. QED
  BY <1>1, CallsInvariant, PTL

\* A goroutine inside a method holds the mutex of its document, also after the
\* two documents of a Merge were locked and released one after the other.
THEOREM CallersOwn == Spec => []InsideOwns
<1>1. CallsInv => InsideOwns
  BY DEF CallsInv
<1>. QED
  BY <1>1, CallsInvariant, PTL

\* Neither Close nor a trap interrupts a method of another goroutine.
THEOREM CallsAreNotCutShort == Spec => []NotCutShort
<1>1. CallsInv => NotCutShort
  BY DEF CallsInv
<1>. QED
  BY <1>1, CallsInvariant, PTL

=============================================================================
