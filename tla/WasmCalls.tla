------------------------------ MODULE WasmCalls ------------------------------
(***************************************************************************)
(* How goroutines share documents.  A document is one WASM instance; its   *)
(* engine keeps a single return buffer (RETURN_BUF) and a single error     *)
(* message (LAST_ERROR), so a Go method is a sequence of engine calls -    *)
(* compute and get the length, allocate, copy - that the document's mutex  *)
(* has to keep together.  Merge takes two mutexes, one after the other.    *)
(*                                                                         *)
(* What the engine computes is left out.  A result or an error message is  *)
(* tagged with the goroutine whose running call produced it, and is Stale  *)
(* once that call has returned.                                            *)
(*                                                                         *)
(* A definition whose comment starts with "Fault" is a wrong variant of    *)
(* the definition after it, put in its place to see a property notice.     *)
(***************************************************************************)
EXTENDS Naturals

CONSTANTS
    Doc,      \* documents, each with its instance
    Thread,   \* goroutines
    Nobody,   \* the owner of an unlocked mutex; no error message; no result
    Stale     \* the tag of what a call that has returned left behind

ASSUME TagAssumption ==
    Doc # {} /\ Nobody \notin Thread /\ Stale \notin Thread /\ Nobody # Stale

VARIABLES
    owner,   \* owner[d]: who holds d's mutex
    inst,    \* the engine behind each document
    thr      \* the call that each goroutine makes or made last

vars == <<owner, inst, thr>>

\* bytes: Save, Heads, Changes, Get ..., which fetch a result in two calls;
\* gen: GenerateMessage, the same with errors swallowed; commit; edit: Splice,
\* Mark, SplitBlock ..., which ask for the last error; apply: Apply, Set,
\* LoadIncremental ..., which only return a code; merge; close.
Op == {"bytes", "gen", "commit", "edit", "apply", "merge", "close"}

Tag == Thread \cup {Nobody, Stale}

\* part: Merge is at part 1 while it saves d2, 2 while it merges, 3 while it
\* fetches the heads; every other call is at part 2.
Call == [pc : {"idle", "lock", "call", "copy", "empty", "hash", "lastError", "unlock"},
         op : Op, doc : Doc, into : Doc, part : 1 .. 3, got : Tag, msg : Tag,
         out : {"none", "ok", "error"}]

Instance == [state : {"live", "trapped", "closed"}, buf : Tag, lastErr : Tag]

\* A goroutine that is in no method; the fields other than pc mean nothing.
AnyDoc == CHOOSE d \in Doc : TRUE

Idle == [pc |-> "idle", op |-> "bytes", doc |-> AnyDoc, into |-> AnyDoc, part |-> 2,
         got |-> Nobody, msg |-> Nobody, out |-> "none"]

-----------------------------------------------------------------------------

Init ==
    /\ owner = [d \in Doc |-> Nobody]
    /\ inst = [d \in Doc |-> [state |-> "live", buf |-> Stale, lastErr |-> Nobody]]
    /\ thr = [t \in Thread |-> Idle]

\* A goroutine calls a method of d; Merge(d, d2) starts with d2.
Begin(t, op, d, d2) ==
    /\ thr[t].pc = "idle"
    /\ op # "merge" => d2 = d
    /\ thr' = [thr EXCEPT ![t] =
          [pc |-> "lock", op |-> op, doc |-> d2, into |-> d,
           part |-> IF op = "merge" THEN 1 ELSE 2,
           got |-> Nobody, msg |-> Nobody, out |-> "none"]]
    /\ UNCHANGED <<owner, inst>>

Lock(t) ==
    /\ thr[t].pc = "lock"
    /\ owner[thr[t].doc] = Nobody
    /\ owner' = [owner EXCEPT ![thr[t].doc] = t]
    /\ thr' = [thr EXCEPT ![t].pc = "call"]
    /\ UNCHANGED inst

\* t is about to make the engine call that op consists of, or starts with.
Calls(t, ops) == thr[t].pc = "call" /\ thr[t].op \in ops

Live(t) == inst[thr[t].doc].state = "live"

\* The method is done and its deferred unlock comes next.
Finish(t, out) == thr' = [thr EXCEPT ![t].pc = "unlock", ![t].out = out]

\* On a closed or trapped instance every call that needs the document fails.
\* GenerateMessage does not tell its caller.
CallFails(t) ==
    /\ Calls(t, Op \ {"close"})
    /\ ~Live(t)
    /\ Finish(t, IF thr[t].op = "gen" THEN "ok" ELSE "error")
    /\ UNCHANGED <<owner, inst>>

\* The first call stores a result in the return buffer and gives its length.
CallLen(t) ==
    /\ Calls(t, {"bytes", "gen"}) \/ (Calls(t, {"merge"}) /\ thr[t].part # 2)
    /\ Live(t)
    /\ inst' = [inst EXCEPT ![thr[t].doc].buf = t]
    /\ thr' = [thr EXCEPT ![t].pc = "copy"]
    /\ UNCHANGED owner

\* Fault: the length is not looked at.
CallLenZeroCopies(t) ==
    /\ Calls(t, {"bytes", "gen"}) \/ (Calls(t, {"merge"}) /\ thr[t].part = 3)
    /\ Live(t)
    /\ thr' = [thr EXCEPT ![t].pc = "copy"]
    /\ UNCHANGED <<owner, inst>>

\* Length 0: nothing to fetch.  The result was empty, or there was none and
\* the return buffer stays as it is.
CallLenZero(t) ==
    /\ Calls(t, {"bytes", "gen"}) \/ (Calls(t, {"merge"}) /\ thr[t].part = 3)
    /\ Live(t)
    /\ \E tag \in {t, inst[thr[t].doc].buf} :
          inst' = [inst EXCEPT ![thr[t].doc].buf = tag]
    /\ Finish(t, "ok")
    /\ UNCHANGED owner

\* The second call copies the return buffer out.
Copy(t) ==
    /\ thr[t].pc = "copy"
    /\ thr' = [thr EXCEPT ![t].pc = "unlock", ![t].out = "ok",
                          ![t].got = inst[thr[t].doc].buf]
    /\ UNCHANGED <<owner, inst>>

\* am_commit: a message that is not UTF-8 is an error; otherwise the last
\* error is cleared, and there is a hash, or there was nothing to commit.
CallCommit(t) ==
    /\ Calls(t, {"commit"})
    /\ Live(t)
    /\ \/ /\ inst' = [inst EXCEPT ![thr[t].doc].lastErr = t]
          /\ thr' = [thr EXCEPT ![t].pc = "lastError"]
       \/ /\ inst' = [inst EXCEPT ![thr[t].doc].buf = t,
                                  ![thr[t].doc].lastErr = Nobody]
          /\ thr' = [thr EXCEPT ![t].pc = "hash"]
       \/ /\ inst' = [inst EXCEPT ![thr[t].doc].lastErr = Nobody]
          /\ \/ thr' = [thr EXCEPT ![t].pc = "empty"]
             \/ Finish(t, "error")
    /\ UNCHANGED owner

\* Fault: an empty commit is tried again until there is something to commit.
EmptyChangeRetries(t) ==
    /\ thr[t].pc = "empty"
    /\ thr' = [thr EXCEPT ![t].pc = "call"]
    /\ UNCHANGED <<owner, inst>>

\* AllowEmpty: an empty change instead.
EmptyChange(t) ==
    /\ thr[t].pc = "empty"
    /\ inst' = [inst EXCEPT ![thr[t].doc].buf = t]
    /\ thr' = [thr EXCEPT ![t].pc = "hash"]
    /\ UNCHANGED owner

\* am_commit_hash_len and am_commit_hash read what am_commit left.
CommitHash(t) ==
    /\ thr[t].pc = "hash"
    /\ thr' = [thr EXCEPT ![t].pc = "unlock", ![t].out = "ok",
                          ![t].got = inst[thr[t].doc].buf]
    /\ UNCHANGED <<owner, inst>>

\* An error of the engine is recorded; an argument that the exported function
\* itself refuses (an unknown handle, bytes that are not UTF-8) is not.
CallEdit(t) ==
    /\ Calls(t, {"edit"})
    /\ Live(t)
    /\ \/ Finish(t, "ok") /\ UNCHANGED inst
       \/ /\ inst' = [inst EXCEPT ![thr[t].doc].lastErr = t]
          /\ thr' = [thr EXCEPT ![t].pc = "lastError"]
       \/ thr' = [thr EXCEPT ![t].pc = "lastError"] /\ UNCHANGED inst
    /\ UNCHANGED owner

\* The last error becomes the method's error; an empty one is replaced by a
\* text that names the call.
LastError(t) ==
    /\ thr[t].pc = "lastError"
    /\ thr' = [thr EXCEPT ![t].pc = "unlock", ![t].out = "error",
                          ![t].msg = inst[thr[t].doc].lastErr]
    /\ UNCHANGED <<owner, inst>>

\* A panic in the engine leaves the DOC cell borrowed for good.
Trap(t) ==
    /\ inst' = [inst EXCEPT ![thr[t].doc].state = "trapped"]
    /\ Finish(t, "error")

CallApply(t) ==
    /\ Calls(t, {"apply"})
    /\ Live(t)
    /\ \/ \E out \in {"ok", "error"} : Finish(t, out) /\ UNCHANGED inst
       \/ Trap(t)
    /\ UNCHANGED owner

\* am_merge does not record that the other document's bytes do not load.
CallMerge(t) ==
    /\ Calls(t, {"merge"})
    /\ thr[t].part = 2
    /\ Live(t)
    /\ \/ thr' = [thr EXCEPT ![t].part = 3] /\ UNCHANGED inst
       \/ thr' = [thr EXCEPT ![t].pc = "lastError"] /\ UNCHANGED inst
       \/ /\ inst' = [inst EXCEPT ![thr[t].doc].lastErr = t]
          /\ thr' = [thr EXCEPT ![t].pc = "lastError"]
       \/ Trap(t)
    /\ UNCHANGED owner

\* Fault: Close does not take the mutex.
CallCloseUnlocked(t) ==
    /\ thr[t].op = "close" /\ thr[t].pc \in {"lock", "call"}
    /\ inst' = [inst EXCEPT ![thr[t].doc].state = "closed"]
    /\ IF thr[t].pc = "call" THEN Finish(t, "ok") ELSE thr' = [thr EXCEPT ![t] = Idle]
    /\ UNCHANGED owner

\* Close is idempotent.
CallClose(t) ==
    /\ Calls(t, {"close"})
    /\ inst' = [inst EXCEPT ![thr[t].doc].state = "closed"]
    /\ Finish(t, "ok")
    /\ UNCHANGED owner

\* Fault: Merge releases the mutex that it is going to take.
MergeUnlockWrong(t) ==
    /\ thr[t].pc = "unlock"
    /\ thr[t].part = 1 /\ thr[t].out = "ok"
    /\ owner' = [owner EXCEPT ![thr[t].into] = Nobody]
    /\ thr' = [thr EXCEPT ![t].pc = "lock", ![t].doc = thr[t].into,
                          ![t].part = 2, ![t].out = "none"]
    /\ UNCHANGED inst

\* Merge has saved d2: it goes on to lock d once it has released d2.
MergeUnlock(t) ==
    /\ thr[t].pc = "unlock"
    /\ thr[t].part = 1 /\ thr[t].out = "ok"
    /\ owner' = [owner EXCEPT ![thr[t].doc] = Nobody]
    /\ thr' = [thr EXCEPT ![t].pc = "lock", ![t].doc = thr[t].into,
                          ![t].part = 2, ![t].out = "none"]
    /\ UNCHANGED inst

\* What t left in the engines is stale once its call is over.
Aged(t, tag) == IF tag = t THEN Stale ELSE tag

\* The deferred unlock, and the return to the caller.
Unlock(t) ==
    /\ thr[t].pc = "unlock"
    /\ ~(thr[t].part = 1 /\ thr[t].out = "ok")
    /\ owner' = [owner EXCEPT ![thr[t].doc] = Nobody]
    /\ thr' = [thr EXCEPT ![t] = Idle]
    /\ inst' = [d \in Doc |-> [inst[d] EXCEPT !.buf = Aged(t, @),
                                              !.lastErr = Aged(t, @)]]

\* Everything a goroutine does while it holds a mutex.
Work(t) ==
    \/ CallFails(t) \/ CallLen(t) \/ CallLenZero(t) \/ Copy(t)
    \/ CallCommit(t) \/ EmptyChange(t) \/ CommitHash(t)
    \/ CallEdit(t) \/ LastError(t) \/ CallApply(t) \/ CallMerge(t)
    \/ CallClose(t) \/ MergeUnlock(t) \/ Unlock(t)

Next ==
    \E t \in Thread :
        \/ \E op \in Op, d, d2 \in Doc : Begin(t, op, d, d2)
        \/ Lock(t)
        \/ Work(t)

Spec == Init /\ [][Next]_vars

\* A running goroutine gets on, and sync.Mutex hands a mutex that is released
\* again and again to each waiter in the end (its starvation mode).
FairSpec ==
    Spec /\ \A t \in Thread : WF_vars(Work(t)) /\ SF_vars(Lock(t))

-----------------------------------------------------------------------------
(* Properties *)

TypeOK ==
    /\ owner \in [Doc -> Thread \cup {Nobody}]
    /\ inst \in [Doc -> Instance]
    /\ thr \in [Thread -> Call]

Holding == {"call", "copy", "empty", "hash", "lastError", "unlock"}

\* A goroutine inside a method holds that document's mutex.
InsideOwns == \A t \in Thread : thr[t].pc \in Holding => owner[thr[t].doc] = t

\* The return buffer still holds the caller's own result when it is copied.
BufferIsOwn ==
    \A t \in Thread : thr[t].pc \in {"copy", "hash"} => inst[thr[t].doc].buf = t

\* The bytes that a method returns are the ones it computed itself, never
\* those of another goroutine or of an earlier call on the same instance.
OwnResult == \A t \in Thread : thr[t].got \in {Nobody, t}

\* A method that has started to fetch its result is not cut short by a Close
\* or a trap that another goroutine causes.
NotCutShort ==
    \A t \in Thread : thr[t].pc \in {"copy", "empty", "hash", "lastError"} => Live(t)

CallsInv == TypeOK /\ InsideOwns /\ BufferIsOwn /\ OwnResult /\ NotCutShort

\* Every method returns, also when documents are merged into each other or
\* into themselves, and when an instance is closed or trapped.
CallsReturn == \A t \in Thread : thr[t].pc # "idle" ~> thr[t].pc = "idle"

=============================================================================
