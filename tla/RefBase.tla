------------------------------- MODULE RefBase -------------------------------
(***************************************************************************)
(* The reference counts of one RefBase object (libutils/RefBase.cpp),      *)
(* shared by threads that take, copy, promote and drop references.  Every  *)
(* atomic access of the code is a step of its own; callbacks of the object *)
(* (onFirstRef and its kin) have their default bodies.                     *)
(*                                                                         *)
(* strong[t] and weak[t] count the sp<> and wp<> thread t owns, pc[t] is   *)
(* the next atomic access of the call it is in and cur[t] the local        *)
(* variable of attemptIncStrong.                                           *)
(***************************************************************************)
EXTENDS Integers, FiniteSets

CONSTANTS
  Threads,
  Creator,              \* the thread that made the object
  INITIAL_STRONG_VALUE,
  Lifetimes,            \* the lifetimes to explore, "STRONG" and "WEAK"
  FirstRefs,            \* the beginnings to explore,
                        \* "taken": the creator has its first strong reference,
                        \* "raw": it is about to take it from a bare pointer,
                        \* "none": there are weak references only
  EarlyPromote,         \* others may promote before the first incStrong is over
  MaxHeld               \* bound on the references of one thread

ASSUME RefBaseAssumption ==
  /\ Creator \in Threads
  /\ Lifetimes \subseteq {"STRONG", "WEAK"}
  /\ FirstRefs \subseteq {"taken", "raw", "none"}
  /\ EarlyPromote \in BOOLEAN
  /\ MaxHeld \in Nat
  /\ INITIAL_STRONG_VALUE \in Nat
  /\ INITIAL_STRONG_VALUE > (MaxHeld + 1) * Cardinality(Threads) + 1

VARIABLES
  mFlags,               \* the lifetime of the object
  mStrong, mWeak,
  obj, impl,            \* 1 until the object, its weakref_impl, is deleted;
                        \* a second delete takes it below 0
  pc, cur,
  strong, weak,
  raw                   \* the creator holds a bare pointer, no reference yet

vars == <<mFlags, mStrong, mWeak, obj, impl, pc, cur, strong, weak, raw>>

I == INITIAL_STRONG_VALUE

Labels == {"idle", "inc1", "inc2", "inc3", "dec1", "dec2", "weak1", "weak2", "incw",
           "try1", "try2", "try3", "try4", "try5", "tryw", "fix1", "fix2"}

\* Every thread has been given a weak reference.
Begin(first) ==
  /\ mStrong = IF first = "taken" THEN 1 ELSE I
  /\ mWeak = Cardinality(Threads) + (IF first = "taken" THEN 1 ELSE 0)
  /\ strong = [t \in Threads |-> IF first = "taken" /\ t = Creator THEN 1 ELSE 0]
  /\ raw = (first = "raw")

Init ==
  /\ mFlags \in Lifetimes
  /\ \E first \in FirstRefs : Begin(first)
  /\ weak = [t \in Threads |-> 1]
  /\ obj = 1
  /\ impl = 1
  /\ pc = [t \in Threads |-> "idle"]
  /\ cur = [t \in Threads |-> 0]

Goto(t, label) == pc' = [pc EXCEPT ![t] = label]

-----------------------------------------------------------------------------
(***************************************************************************)
(* incStrong.                                                              *)
(***************************************************************************)
IncStrong(t) ==
  /\ pc[t] = "idle"
  /\ strong[t] > 0 \/ (t = Creator /\ raw)
  /\ strong[t] + weak[t] < MaxHeld
  /\ Goto(t, "inc1")
  /\ UNCHANGED <<mStrong, mWeak, obj, impl, cur, strong, weak, raw>>

IncStrongWeak(t) ==
  /\ pc[t] = "inc1"
  /\ mWeak' = mWeak + 1
  /\ Goto(t, "inc2")
  /\ UNCHANGED <<mStrong, obj, impl, cur, strong, weak, raw>>

Taken(t) ==
  /\ Goto(t, "idle")
  /\ strong' = [strong EXCEPT ![t] = @ + 1]
  /\ raw' = (raw /\ t # Creator)

IncStrongCount(t) ==
  /\ pc[t] = "inc2"
  /\ mStrong' = mStrong + 1
  /\ IF mStrong = I THEN Goto(t, "inc3") /\ UNCHANGED <<strong, raw>> ELSE Taken(t)
  /\ UNCHANGED <<mWeak, obj, impl, cur, weak>>

IncStrongFirst(t) ==
  /\ pc[t] = "inc3"
  /\ mStrong' = mStrong - I
  /\ Taken(t)
  /\ UNCHANGED <<mWeak, obj, impl, cur, weak>>

(***************************************************************************)
(* decStrong and decWeak.                                                  *)
(***************************************************************************)
DecStrong(t) ==
  /\ pc[t] = "idle"
  /\ strong[t] > 0
  /\ strong' = [strong EXCEPT ![t] = @ - 1]
  /\ Goto(t, "dec1")
  /\ UNCHANGED <<mStrong, mWeak, obj, impl, cur, weak, raw>>

\* Mutant: the lifetime flag is not looked at.
DecStrongCount_IgnoresFlags(t) ==
  /\ pc[t] = "dec1"
  /\ mStrong' = mStrong - 1
  /\ Goto(t, IF mStrong = 1 THEN "dec2" ELSE "weak1")
  /\ UNCHANGED <<mWeak, obj, impl, cur, strong, weak, raw>>

DecStrongCount(t) ==
  /\ pc[t] = "dec1"
  /\ mStrong' = mStrong - 1
  /\ Goto(t, IF mStrong = 1 /\ mFlags = "STRONG" THEN "dec2" ELSE "weak1")
  /\ UNCHANGED <<mWeak, obj, impl, cur, strong, weak, raw>>

\* ~RefBase: what it deletes besides the object.
Destroy ==
  /\ obj' = obj - 1
  /\ impl' = IF mStrong = I \/ (mFlags = "WEAK" /\ mWeak = 0) THEN impl - 1 ELSE impl

DeleteThis(t) ==
  /\ pc[t] = "dec2"
  /\ Destroy
  /\ Goto(t, "weak1")
  /\ UNCHANGED <<mStrong, mWeak, cur, strong, weak, raw>>

DecWeak(t) ==
  /\ pc[t] = "idle"
  /\ weak[t] > 0
  /\ ~(t = Creator /\ raw)
  /\ weak' = [weak EXCEPT ![t] = @ - 1]
  /\ Goto(t, "weak1")
  /\ UNCHANGED <<mStrong, mWeak, obj, impl, cur, strong, raw>>

DecWeakCount(t) ==
  /\ pc[t] = "weak1"
  /\ mWeak' = mWeak - 1
  /\ Goto(t, IF mWeak = 1 THEN "weak2" ELSE "idle")
  /\ UNCHANGED <<mStrong, obj, impl, cur, strong, weak, raw>>

\* Mutant: the lifetime is not looked at.
LastWeak_DeletesBase(t) ==
  /\ pc[t] = "weak2"
  /\ Destroy
  /\ Goto(t, "idle")
  /\ UNCHANGED <<mStrong, mWeak, cur, strong, weak, raw>>

\* Mutant: the case of an object that never had a strong reference is missing.
LastWeak_NeverStrong(t) ==
  /\ pc[t] = "weak2"
  /\ IF mFlags = "STRONG" THEN impl' = impl - 1 /\ UNCHANGED obj ELSE Destroy
  /\ Goto(t, "idle")
  /\ UNCHANGED <<mStrong, mWeak, cur, strong, weak, raw>>

LastWeak(t) ==
  /\ pc[t] = "weak2"
  /\ IF mFlags = "STRONG" /\ mStrong # I THEN impl' = impl - 1 /\ UNCHANGED obj ELSE Destroy
  /\ Goto(t, "idle")
  /\ UNCHANGED <<mStrong, mWeak, cur, strong, weak, raw>>

\* createWeak and incWeak: copy a reference into a wp<>.
CreateWeak(t) ==
  /\ pc[t] = "idle"
  /\ strong[t] > 0 \/ weak[t] > 0
  /\ strong[t] + weak[t] < MaxHeld
  /\ Goto(t, "incw")
  /\ UNCHANGED <<mStrong, mWeak, obj, impl, cur, strong, weak, raw>>

IncWeak(t) ==
  /\ pc[t] = "incw"
  /\ mWeak' = mWeak + 1
  /\ weak' = [weak EXCEPT ![t] = @ + 1]
  /\ Goto(t, "idle")
  /\ UNCHANGED <<mStrong, obj, impl, cur, strong, raw>>

-----------------------------------------------------------------------------
(***************************************************************************)
(* attemptIncStrong (wp<>::promote).                                       *)
(***************************************************************************)
AttemptIncStrong(t) ==
  /\ pc[t] = "idle"
  /\ raw => t = Creator \/ EarlyPromote
  /\ weak[t] > 0
  /\ strong[t] + weak[t] < MaxHeld
  /\ Goto(t, "try1")
  /\ UNCHANGED <<mStrong, mWeak, obj, impl, cur, strong, weak, raw>>

\* Mutant: the attempt does not hold a weak reference of its own.
AttemptIncWeak_Skipped(t) ==
  /\ pc[t] = "try1"
  /\ Goto(t, "try2")
  /\ UNCHANGED <<mStrong, mWeak, obj, impl, cur, strong, weak, raw>>

AttemptIncWeak(t) ==
  /\ pc[t] = "try1"
  /\ mWeak' = mWeak + 1
  /\ Goto(t, "try2")
  /\ UNCHANGED <<mStrong, obj, impl, cur, strong, weak, raw>>

\* curCount = mStrong, and where that leads.
AttemptRead(t) ==
  /\ pc[t] = "try2"
  /\ cur' = [cur EXCEPT ![t] = mStrong]
  /\ Goto(t, CASE mStrong > 0 /\ mStrong # I -> "try3"
               [] mFlags = "WEAK" /\ (mStrong <= 0 \/ mStrong = I) -> "tryw"
               [] mFlags = "STRONG" /\ mStrong <= 0 -> "weak1"
               [] OTHER -> "try4")
  /\ UNCHANGED <<mStrong, mWeak, obj, impl, strong, weak, raw>>

\* cmpxchg of the count that was read; on failure it is read again.
Exchange(t, then, retry) ==
  /\ IF mStrong = cur[t] THEN mStrong' = mStrong + 1 /\ Goto(t, then)
     ELSE Goto(t, retry) /\ UNCHANGED mStrong
  /\ UNCHANGED <<mWeak, obj, impl, cur, strong, weak, raw>>

AttemptCommon(t) == pc[t] = "try3" /\ Exchange(t, "fix1", "try2")

\* There never was a strong reference.
AttemptFirst(t) == pc[t] = "try4" /\ Exchange(t, "fix1", "try5")

AttemptReread(t) ==
  /\ pc[t] = "try5"
  /\ cur' = [cur EXCEPT ![t] = mStrong]
  /\ Goto(t, IF mStrong <= 0 THEN "weak1" ELSE "try4")
  /\ UNCHANGED <<mStrong, mWeak, obj, impl, strong, weak, raw>>

\* Extended lifetime: onIncStrongAttempted agrees, take the reference.
AttemptRevive(t) ==
  /\ pc[t] = "tryw"
  /\ mStrong' = mStrong + 1
  /\ Goto(t, "fix1")
  /\ UNCHANGED <<mWeak, obj, impl, cur, strong, weak, raw>>

\* The fix-up of a count that started at INITIAL_STRONG_VALUE.
FixRead(t) ==
  /\ pc[t] = "fix1"
  /\ cur' = [cur EXCEPT ![t] = mStrong]
  /\ IF mStrong >= I THEN Goto(t, "fix2") /\ UNCHANGED <<strong, raw>> ELSE Taken(t)
  /\ UNCHANGED <<mStrong, mWeak, obj, impl, weak>>

\* Mutant: the fix-up is not a compare and exchange.
FixCount_Blind(t) ==
  /\ pc[t] = "fix2"
  /\ mStrong' = mStrong - I
  /\ Taken(t)
  /\ UNCHANGED <<mWeak, obj, impl, cur, weak>>

FixCount(t) ==
  /\ pc[t] = "fix2"
  /\ IF mStrong = cur[t] THEN mStrong' = mStrong - I /\ Taken(t)
     ELSE Goto(t, "fix1") /\ UNCHANGED <<mStrong, strong, raw>>
  /\ UNCHANGED <<mWeak, obj, impl, cur, weak>>

-----------------------------------------------------------------------------
\* The steps of a call that has begun; the calls themselves are the program's
\* choice.
Step(t) ==
  \/ IncStrongWeak(t) \/ IncStrongCount(t) \/ IncStrongFirst(t)
  \/ DecStrongCount(t) \/ DeleteThis(t)
  \/ DecWeakCount(t) \/ LastWeak(t) \/ IncWeak(t)
  \/ AttemptIncWeak(t) \/ AttemptRead(t) \/ AttemptCommon(t) \/ AttemptFirst(t)
  \/ AttemptReread(t) \/ AttemptRevive(t) \/ FixRead(t) \/ FixCount(t)

Next ==
  /\ mFlags' = mFlags
  /\ \E t \in Threads :
       \/ Step(t)
       \/ IncStrong(t) \/ DecStrong(t) \/ DecWeak(t) \/ CreateWeak(t) \/ AttemptIncStrong(t)

Spec == Init /\ [][Next]_vars

-----------------------------------------------------------------------------
TypeOK ==
  /\ mFlags \in Lifetimes
  /\ mStrong \in Int
  /\ mWeak \in Nat
  /\ obj \in 0..1
  /\ impl \in 0..1
  /\ pc \in [Threads -> Labels]
  /\ cur \in [Threads -> Int]
  /\ strong \in [Threads -> 0..MaxHeld]
  /\ weak \in [Threads -> 0..MaxHeld]
  /\ raw \in BOOLEAN

\* Nobody touches the counts after the weakref_impl was deleted, and the
\* object is deleted at most once: every call in progress, and every reference
\* held, still finds them.
NoUseAfterFree ==
  \A t \in Threads :
    /\ pc[t] # "idle" \/ weak[t] > 0 \/ strong[t] > 0 => impl = 1
    /\ pc[t] = "dec2" => obj = 1

\* A strong reference keeps the object alive, also one that another thread
\* obtained by promoting a weak one while the last strong one was dropped.
StrongKeepsAlive ==
  \A t \in Threads :
    strong[t] > 0 \/ pc[t] \in {"fix1", "fix2", "inc1", "inc2", "inc3"} => obj = 1

\* When the last reference is gone both the object and its weakref_impl are.
NoLeak ==
  (\A t \in Threads : pc[t] = "idle" /\ strong[t] = 0 /\ weak[t] = 0) => obj = 0 /\ impl = 0

\* The strong count never underflows, as attemptIncStrong asserts.
NoUnderflow == mStrong >= 0

==============================================================================
