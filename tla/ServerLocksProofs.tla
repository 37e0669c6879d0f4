-------------------------- MODULE ServerLocksProofs -------------------------
(***************************************************************************)
(* The order of the server's locks, for any goroutines, any setting and    *)
(* any size of the queue.                                                  *)
(*                                                                         *)
(* A goroutine is a sequence of instructions, so what it may still do is   *)
(* shown as for a program text: an assertion says which locks are held and *)
(* which facts about the shared state are known, every instruction leads   *)
(* from one assertion to another, and "Proves(A, s, B)" says that s can be *)
(* annotated with assertions from A to B.  The inductive invariant is that *)
(* what each goroutine has to do is proved from what is the case for it.   *)
(* No other goroutine can invalidate a fact, for whoever knows one holds   *)
(* cm, and the control state is changed under cm alone.                    *)
(***************************************************************************)
EXTENDS ServerLocks, TLAPS

-----------------------------------------------------------------------------
(* Assertions.  The facts: a client has control ("remote"); there is no    *)
(* target ("free"), or none without an owner ("clean"); the Ctrl+ESC       *)
(* goroutine does not run and nobody else starts it ("quiet").             *)

Modes == {"no", "read", "write"}
Facts == {"remote", "free", "clean", "quiet"}
Assertions == [holds : [Locks -> Modes], knows : SUBSET Facts]

\* B claims the same locks as A and no more facts.
Weaker(B, A) == B.holds = A.holds /\ B.knows \subseteq A.knows

NoLocks == [k \in Locks |-> "no"]
Alone(l, mode) == [NoLocks EXCEPT ![l] = mode]
Done == [holds |-> NoLocks, knows |-> {}]

\* What an instruction needs.  Locks are taken in the order cm before ssh and a.
Ordered(A, l) == \A k \in Locks : A.holds[k] # "no" => k = "cm" /\ l # "cm"

StepAllowed(step, A) ==
  /\ step = "write" => "remote" \in A.knows
  /\ step \in {"grab", "goRemote", "goLocal"} => A.holds["cm"] = "write"
  /\ step = "goLocal" => "free" \in A.knows
  /\ step \in {"release", "grant", "rotate", "unregister"} =>
       A.holds = Alone("cm", "write") /\ "clean" \in A.knows
  /\ step \in {"next", "route"} => A.holds = Alone("cm", "read")
  /\ step \in {"peek", "chord"} => A.holds = Alone("a", "read")
  /\ step = "answer" => A.holds = NoLocks
  /\ step \in {"chord", "spawn"} => "quiet" \in A.knows

Allowed(x, A) ==
  /\ x[1] \in {"lock", "rlock"} => Ordered(A, x[2])
  /\ x[1] = "unlock" => A.holds[x[2]] = "write" /\ (x[2] = "cm" => "clean" \in A.knows)
  /\ x[1] = "runlock" => A.holds[x[2]] = "read"
  /\ x[1] = "do" => StepAllowed(x[2], A)

\* What holds after it and, for a step, after what the step continues with.
HoldsAfter(x, A) ==
  CASE x[1] = "lock" -> [A.holds EXCEPT ![x[2]] = "write"]
    [] x[1] = "rlock" -> [A.holds EXCEPT ![x[2]] = "read"]
    [] x[1] \in {"unlock", "runlock"} -> [A.holds EXCEPT ![x[2]] = "no"]
    [] x \in {Do("next"), Do("answer"), Do("peek"), Do("chord")} -> NoLocks
    [] OTHER -> A.holds

KnowsAfter(x, A) ==
  CASE x \in {Lock("cm"), RLock("cm")} -> A.knows \cup {"clean"}
    [] x \in {Unlock("cm"), RUnlock("cm")} -> A.knows \cap {"quiet"}
    [] x = Do("free") -> IF A.holds["cm"] = "no" THEN A.knows ELSE A.knows \cup {"free", "clean"}
    [] x = Do("grab") -> A.knows \ {"free", "clean"}
    [] x = Do("goLocal") -> A.knows \ {"remote"}
    [] x = Do("goRemote") -> A.knows \cup {"remote", "clean"}
    [] x \in {Do("release"), Do("grant"), Do("rotate"), Do("unregister")} -> {"clean"}
    [] x \in {Do("next"), Do("answer"), Do("route"), Do("peek"), Do("chord")} -> {}
    [] x = Do("spawn") -> A.knows \ {"quiet"}
    [] OTHER -> A.knows

After(x, A) == [holds |-> HoldsAfter(x, A), knows |-> KnowsAfter(x, A)]

\* What is the case for a goroutine g with s to do, whatever the locks (w, r) and the
\* control state: the locks it has, and has not only asked for, and the facts.
Waits(x, s) == s # <<>> /\ Head(s) = x

Raw(g, w, r, l) == IF w[l] = g THEN "write" ELSE IF g \in r[l] THEN "read" ELSE "no"
ModeOf(g, w, r, s, l) ==
  IF w[l] = g /\ ~Waits(Lock(l), s) THEN "write"
  ELSE IF g \in r[l] /\ ~Waits(RLock(l), s) THEN "read" ELSE "no"
HoldsOf(g, w, r, s) == [l \in Locks |-> ModeOf(g, w, r, s, l)]

IsFact(f, g, h, isLocal, hasTarget, escape) ==
  \/ f = "quiet" /\ g = "device" /\ escape = <<>>
  \/ h["cm"] # "no" /\ \/ f = "remote" /\ ~isLocal
                       \/ f = "free" /\ ~hasTarget
                       \/ f = "clean" /\ ~(isLocal /\ hasTarget)
FactsOf(g, h, isLocal, hasTarget, escape) ==
  {f \in Facts : IsFact(f, g, h, isLocal, hasTarget, escape)}

Holds(g) == HoldsOf(g, writer, readers, todo[g])
Knows(g) == FactsOf(g, Holds(g), local, target, todo["escape"])
StateOf(g) == [holds |-> Holds(g), knows |-> Knows(g)]

-----------------------------------------------------------------------------
(* Annotated sequences of instructions.                                    *)

Leads(A, x, B) == Allowed(x, A) /\ Weaker(B, After(x, A))

Annotates(note, s) ==
  /\ note \in [1..(Len(s) + 1) -> Assertions]
  /\ \A i \in 1..Len(s) : Leads(note[i], s[i], note[i + 1])

Proves(A, s, B) ==
  /\ s \in Seq(Instructions)
  /\ \E note : /\ Annotates(note, s)
               /\ Weaker(note[1], A)
               /\ Weaker(B, note[Len(s) + 1])

\* The three locks.
LEMMA LocksDiffer == "cm" \in Locks /\ "ssh" \in Locks /\ "a" \in Locks
                     /\ "cm" # "ssh" /\ "cm" # "a" /\ "ssh" # "a"
  BY DEF Locks

\* After is an assertion again, and more facts before give more facts after.
LEMMA AfterType ==
  ASSUME NEW A \in Assertions, NEW x \in Instructions
  PROVE  After(x, A) \in Assertions
<1>1. HoldsAfter(x, A) \in [Locks -> Modes]
  BY DEF HoldsAfter, Assertions, Modes, NoLocks
<1>2. KnowsAfter(x, A) \in SUBSET Facts
  BY DEF KnowsAfter, Assertions, Facts
<1>3. QED
  BY <1>1, <1>2 DEF After, Assertions

\* An instruction allowed with few facts is allowed with more, and leads to more.
LEMMA MoreFacts ==
  ASSUME NEW A \in Assertions, NEW B \in Assertions, Weaker(A, B), NEW x \in Instructions,
         Allowed(x, A)
  PROVE  Allowed(x, B) /\ Weaker(After(x, A), After(x, B))
<1>1. Allowed(x, B)
  BY DEF Weaker, Allowed, StepAllowed, Ordered
<1>2. HoldsAfter(x, A) = HoldsAfter(x, B)
  BY DEF Weaker, HoldsAfter
<1>3. KnowsAfter(x, A) \subseteq KnowsAfter(x, B)
  BY DEF Weaker, KnowsAfter
<1>4. QED
  BY <1>1, <1>2, <1>3 DEF Weaker, After

\* Claiming less is transitive.
LEMMA WeakerTransitive ==
  ASSUME NEW A, NEW B, NEW C, Weaker(A, B), Weaker(B, C)
  PROVE  Weaker(A, C)
  BY DEF Weaker

\* The empty sequence.
LEMMA ProvesNothing ==
  ASSUME NEW A \in Assertions, NEW B \in Assertions, Weaker(B, A)
  PROVE  Proves(A, <<>>, B)
<1>. DEFINE note == [i \in 1..1 |-> A]
<1>1. Annotates(note, <<>>)
  BY DEF Annotates
<1>2. Weaker(note[1], A) /\ Weaker(B, note[Len(<<>>) + 1])
  BY DEF Weaker
<1>3. QED
  BY <1>1, <1>2 DEF Proves

\* One instruction.
LEMMA ProvesOne ==
  ASSUME NEW A \in Assertions, NEW x \in Instructions, Allowed(x, A)
  PROVE  Proves(A, <<x>>, After(x, A))
<1>. DEFINE note == [i \in 1..2 |-> IF i = 1 THEN A ELSE After(x, A)]
<1>1. After(x, A) \in Assertions
  BY AfterType
<1>2. <<x>> \in Seq(Instructions) /\ Len(<<x>>) = 1 /\ <<x>>[1] = x
  OBVIOUS
<1>3. note \in [1..2 -> Assertions]
  BY <1>1
<1>4. Leads(note[1], x, note[2])
  BY DEF Leads, Weaker
<1>5. Annotates(note, <<x>>)
  <2>1. ASSUME NEW i \in 1..Len(<<x>>) PROVE Leads(note[i], <<x>>[i], note[i + 1])
    <3>1. i = 1
      BY <1>2
    <3>2. QED
      BY <3>1, <1>2, <1>4
  <2>2. QED
    BY <1>2, <1>3, <2>1 DEF Annotates
<1>6. Weaker(note[1], A) /\ Weaker(After(x, A), note[Len(<<x>>) + 1])
  BY <1>2 DEF Weaker
<1>7. QED
  BY <1>2, <1>5, <1>6 DEF Proves

\* One sequence after the other.
LEMMA ProvesThen ==
  ASSUME NEW A \in Assertions, NEW B \in Assertions, NEW C \in Assertions, NEW s, NEW t,
         Proves(A, s, B), Proves(B, t, C)
  PROVE  Proves(A, s \o t, C)
<1>1. PICK p : Annotates(p, s) /\ Weaker(p[1], A) /\ Weaker(B, p[Len(s) + 1])
  BY DEF Proves
<1>2. PICK q : Annotates(q, t) /\ Weaker(q[1], B) /\ Weaker(C, q[Len(t) + 1])
  BY DEF Proves
<1>. DEFINE m == Len(s)
            n == Len(t)
            st == s \o t
            note == [i \in 1..(m + n + 1) |-> IF i <= m THEN p[i] ELSE q[i - m]]
<1>3. s \in Seq(Instructions) /\ t \in Seq(Instructions)
  BY DEF Proves
<1>4. /\ m \in Nat /\ n \in Nat
      /\ st \in Seq(Instructions) /\ Len(st) = m + n
      /\ \A i \in 1..(m + n) : st[i] = IF i <= m THEN s[i] ELSE t[i - m]
  BY <1>3
<1>5. /\ p \in [1..(m + 1) -> Assertions] /\ q \in [1..(n + 1) -> Assertions]
      /\ \A i \in 1..m : Leads(p[i], s[i], p[i + 1])
      /\ \A i \in 1..n : Leads(q[i], t[i], q[i + 1])
  BY <1>1, <1>2 DEF Annotates
<1>. HIDE DEF m, n, st
<1>6. note \in [1..(m + n + 1) -> Assertions]
  BY <1>4, <1>5
<1>7. Weaker(q[1], p[m + 1])
  BY <1>1, <1>2, WeakerTransitive DEF m
<1>8. ASSUME NEW i \in 1..(m + n)
      PROVE  Leads(note[i], st[i], note[i + 1])
  <2>1. CASE i < m
    <3>1. note[i] = p[i] /\ note[i + 1] = p[i + 1] /\ st[i] = s[i] /\ i \in 1..m
      BY <2>1, <1>4
    <3>2. QED
      BY <3>1, <1>5
  <2>2. CASE i = m
    <3>1. note[i] = p[i] /\ note[i + 1] = q[1] /\ st[i] = s[i] /\ i \in 1..m
      BY <2>2, <1>4
    <3>2. Allowed(s[i], p[i]) /\ Weaker(p[m + 1], After(s[i], p[i]))
      BY <2>2, <3>1, <1>5 DEF Leads
    <3>3. Weaker(q[1], After(s[i], p[i]))
      BY <3>2, <1>7, WeakerTransitive
    <3>4. QED
      BY <3>1, <3>2, <3>3 DEF Leads
  <2>3. CASE i > m
    <3>1. /\ note[i] = q[i - m] /\ note[i + 1] = q[(i - m) + 1] /\ st[i] = t[i - m]
          /\ i - m \in 1..n
      BY <2>3, <1>4
    <3>2. QED
      BY <3>1, <1>5
  <2>4. QED
    BY <1>4, <2>1, <2>2, <2>3
<1>9. Annotates(note, st)
  BY <1>4, <1>6, <1>8 DEF Annotates
<1>10. Weaker(note[1], A)
  <2>1. CASE m = 0
    <3>1. note[1] = q[1] /\ p[1] = p[m + 1]
      BY <1>4, <2>1
    <3>2. QED
      BY <3>1, <1>1, <1>7, WeakerTransitive
  <2>2. CASE m # 0
    <3>1. note[1] = p[1]
      BY <1>4, <2>2
    <3>2. QED
      BY <3>1, <1>1
  <2>3. QED
    BY <2>1, <2>2
<1>11. Weaker(C, note[Len(st) + 1])
  <2>1. note[Len(st) + 1] = q[n + 1]
    BY <1>4
  <2>2. QED
    BY <2>1, <1>2 DEF n
<1>12. QED
  BY <1>4, <1>9, <1>10, <1>11 DEF Proves, st

\* More may be the case before, and less is needed after.
LEMMA ProvesAlso ==
  ASSUME NEW A, NEW B, NEW C, NEW D, NEW s,
         Proves(A, s, B), Weaker(A, C), Weaker(D, B)
  PROVE  Proves(C, s, D)
<1>1. PICK p : Annotates(p, s) /\ Weaker(p[1], A) /\ Weaker(B, p[Len(s) + 1])
  BY DEF Proves
<1>2. Weaker(p[1], C) /\ Weaker(D, p[Len(s) + 1])
  BY <1>1, WeakerTransitive
<1>3. QED
  BY <1>1, <1>2 DEF Proves

\* What is left after the first instruction.
LEMMA ProvesRest ==
  ASSUME NEW A \in Assertions, NEW B \in Assertions, NEW s, Proves(A, s, B), s # <<>>
  PROVE  /\ Head(s) \in Instructions /\ Allowed(Head(s), A)
         /\ Proves(After(Head(s), A), Tail(s), B)
<1>1. PICK p : Annotates(p, s) /\ Weaker(p[1], A) /\ Weaker(B, p[Len(s) + 1])
  BY DEF Proves
<1>. DEFINE n == Len(s)
            t == Tail(s)
            note == [i \in 1..n |-> p[i + 1]]
<1>2. s \in Seq(Instructions)
  BY DEF Proves
<1>3. /\ n \in Nat /\ n >= 1
      /\ t \in Seq(Instructions) /\ Len(t) = n - 1
      /\ \A i \in 1..(n - 1) : t[i] = s[i + 1]
      /\ s[1] \in Instructions /\ Head(s) = s[1]
  BY <1>2
<1>4. p \in [1..(n + 1) -> Assertions] /\ \A i \in 1..n : Leads(p[i], s[i], p[i + 1])
  BY <1>1 DEF Annotates
<1>. HIDE DEF n, t
<1>5. Leads(p[1], s[1], p[2]) /\ p[1] \in Assertions
  BY <1>3, <1>4
<1>6. Allowed(s[1], A) /\ Weaker(p[2], After(s[1], A))
  BY <1>1, <1>3, <1>5, MoreFacts, WeakerTransitive DEF Leads
<1>7. note \in [1..n -> Assertions]
  BY <1>3, <1>4
<1>8. ASSUME NEW i \in 1..(n - 1)
      PROVE  Leads(note[i], t[i], note[i + 1])
  BY <1>3, <1>4
<1>9. Annotates(note, t)
  <2>1. Len(t) + 1 = n /\ Len(t) = n - 1
    BY <1>3
  <2>. HIDE DEF note
  <2>2. QED
    BY <2>1, <1>7, <1>8 DEF Annotates
<1>10. note[1] = p[2] /\ note[Len(t) + 1] = p[n + 1]
  BY <1>3
<1>11. QED
  BY <1>1, <1>3, <1>6, <1>9, <1>10 DEF Proves, n, t

\* Nothing more to do.
LEMMA ProvesEnd ==
  ASSUME NEW A, NEW B, Proves(A, <<>>, B)
  PROVE  Weaker(B, A)
<1>1. PICK p : Weaker(p[1], A) /\ Weaker(B, p[Len(<<>>) + 1])
  BY DEF Proves
<1>2. QED
  BY <1>1, WeakerTransitive

-----------------------------------------------------------------------------
(* The operations, proved from what their callers hold and know.           *)

No(F) == [holds |-> NoLocks, knows |-> F]
Cm(F) == [holds |-> Alone("cm", "write"), knows |-> F]
CmRead(F) == [holds |-> Alone("cm", "read"), knows |-> F]
ARead(F) == [holds |-> Alone("a", "read"), knows |-> F]

\* What a caller holds: no lock, cm, or one lock for reading.
LEMMA Contexts ==
  ASSUME NEW F \in SUBSET Facts
  PROVE  /\ No(F) \in Assertions /\ Cm(F) \in Assertions
         /\ CmRead(F) \in Assertions /\ ARead(F) \in Assertions
         /\ Done = No({}) /\ Done \in Assertions
  BY DEF No, Cm, CmRead, ARead, Done, Assertions, NoLocks, Alone, Modes, Facts

\* The operations on a lock are instructions.
LEMMA LockInstructions ==
  ASSUME NEW l \in Locks
  PROVE  /\ Lock(l) \in Instructions /\ Unlock(l) \in Instructions
         /\ RLock(l) \in Instructions /\ RUnlock(l) \in Instructions
  BY DEF Lock, Unlock, RLock, RUnlock, Instructions

\* The steps are instructions.
LEMMA StepInstructions == \A step \in Steps : Do(step) \in Instructions
  BY DEF Do, Instructions

\* A critical section.
LEMMA ProvesSection ==
  ASSUME NEW A \in Assertions, NEW B \in Assertions, NEW l \in Locks, NEW body,
         Ordered(A, l), Proves(After(Lock(l), A), body, B), Allowed(Unlock(l), B)
  PROVE  Proves(A, Section(l, body), After(Unlock(l), B))
<1>1. Allowed(Lock(l), A)
  BY DEF Allowed, Lock
<1>2. Proves(A, <<Lock(l)>>, After(Lock(l), A)) /\ After(Lock(l), A) \in Assertions
  BY <1>1, LockInstructions, ProvesOne, AfterType
<1>3. Proves(B, <<Unlock(l)>>, After(Unlock(l), B)) /\ After(Unlock(l), B) \in Assertions
  BY LockInstructions, ProvesOne, AfterType
<1>4. Proves(A, <<Lock(l)>> \o body, B)
  BY <1>2, ProvesThen
<1>5. QED
  BY <1>3, <1>4, ProvesThen DEF Section

\* A section for reading.
LEMMA ProvesReadSection ==
  ASSUME NEW A \in Assertions, NEW B \in Assertions, NEW l \in Locks, NEW body,
         Ordered(A, l), Proves(After(RLock(l), A), body, B), Allowed(RUnlock(l), B)
  PROVE  Proves(A, ReadSection(l, body), After(RUnlock(l), B))
<1>1. Allowed(RLock(l), A)
  BY DEF Allowed, RLock
<1>2. Proves(A, <<RLock(l)>>, After(RLock(l), A)) /\ After(RLock(l), A) \in Assertions
  BY <1>1, LockInstructions, ProvesOne, AfterType
<1>3. Proves(B, <<RUnlock(l)>>, After(RUnlock(l), B)) /\ After(RUnlock(l), B) \in Assertions
  BY LockInstructions, ProvesOne, AfterType
<1>4. Proves(A, <<RLock(l)>> \o body, B)
  BY <1>2, ProvesThen
<1>5. QED
  BY <1>3, <1>4, ProvesThen DEF ReadSection

\* A line, or none, changes nothing for the goroutine that logs.
LEMMA ProvesLog ==
  ASSUME NEW A \in Assertions
  PROVE  Proves(A, Log, A) /\ Proves(A, Refresh, A)
<1>1. ASSUME NEW x \in {Line, RefreshMessage}
      PROVE  Proves(A, <<x>>, A)
  <2>1. x \in Instructions
    BY DEF Instructions
  <2>2. Allowed(x, A)
    BY DEF Allowed, Line, RefreshMessage
  <2>3. HoldsAfter(x, A) = A.holds
    BY DEF HoldsAfter, Line, RefreshMessage, Do
  <2>4. KnowsAfter(x, A) = A.knows
    BY DEF KnowsAfter, Line, RefreshMessage, Do, Lock, RLock, Unlock, RUnlock
  <2>5. After(x, A) = A
    BY <2>3, <2>4 DEF After, Assertions
  <2>6. QED
    BY <2>1, <2>2, <2>5, ProvesOne
<1>2. Proves(A, <<>>, A)
  BY ProvesNothing DEF Weaker
<1>3. QED
  BY <1>1, <1>2 DEF Log, Refresh

\* A write to the client, routed while a client had control.
LEMMA ProvesSend ==
  ASSUME NEW A \in Assertions, A.holds["ssh"] = "no", A.holds["a"] = "no", "remote" \in A.knows
  PROVE  Proves(A, SendEventToClient, A)
<1>. DEFINE B == After(RLock("ssh"), A)
<1>1. Ordered(A, "ssh")
  BY DEF Ordered, Locks
<1>2. B \in Assertions /\ "ssh" \in Locks
  BY LockInstructions, LocksDiffer, AfterType
<1>3. B = [holds |-> [A.holds EXCEPT !["ssh"] = "read"], knows |-> A.knows]
  BY DEF After, HoldsAfter, KnowsAfter, RLock, Lock, Unlock, RUnlock, Do
<1>4. Do("write") \in Instructions /\ Allowed(Do("write"), B)
  BY <1>3, StepInstructions DEF Steps, Allowed, StepAllowed, Do
<1>5. After(Do("write"), B) = B
  BY <1>2 DEF After, HoldsAfter, KnowsAfter, RLock, Lock, Unlock, RUnlock, Do, Assertions
<1>6. Proves(B, <<Do("write")>>, B)
  BY <1>2, <1>4, <1>5, ProvesOne
<1>7. Allowed(RUnlock("ssh"), B)
  BY <1>3, LocksDiffer DEF Allowed, RUnlock, Assertions
<1>8. After(RUnlock("ssh"), B) = A
  <2>1. [[A.holds EXCEPT !["ssh"] = "read"] EXCEPT !["ssh"] = "no"] = A.holds
    BY LocksDiffer DEF Assertions
  <2>2. QED
    BY <1>3, <2>1 DEF After, HoldsAfter, KnowsAfter, RLock, Lock, Unlock, RUnlock, Do, Assertions
<1>. HIDE DEF B
<1>9. QED
  BY <1>1, <1>2, <1>6, <1>7, <1>8, ProvesReadSection DEF SendEventToClient, B

\* ClearTarget, from any assertion without a lock on the channel or the backend.
LEMMA ProvesClear ==
  ASSUME NEW A \in Assertions, A.holds["ssh"] = "no", A.holds["a"] = "no"
  PROVE  Proves(A, ClearTarget, After(Do("free"), A))
<1>. DEFINE B == After(Lock("a"), A)
            C == After(Do("free"), B)
<1>1. Ordered(A, "a")
  BY DEF Ordered, Locks
<1>2. B \in Assertions /\ "a" \in Locks /\ Do("free") \in Instructions
  BY LockInstructions, LocksDiffer, AfterType, StepInstructions DEF Steps
<1>3. C \in Assertions
  BY <1>2, AfterType
<1>4. B = [holds |-> [A.holds EXCEPT !["a"] = "write"], knows |-> A.knows]
  BY DEF After, HoldsAfter, KnowsAfter, RLock, Lock, Unlock, RUnlock, Do
<1>5. B.holds["cm"] = A.holds["cm"]
  BY <1>4, LocksDiffer DEF Assertions
<1>6. C = [holds |-> B.holds, knows |-> KnowsAfter(Do("free"), A)]
  BY <1>4, <1>5 DEF After, HoldsAfter, KnowsAfter, RLock, Lock, Unlock, RUnlock, Do
<1>7. Allowed(Do("free"), B)
  BY DEF Allowed, StepAllowed, Do
<1>8. Allowed(Unlock("a"), C)
  BY <1>4, <1>6, LocksDiffer DEF Allowed, Unlock, Assertions
<1>9. After(Unlock("a"), C) = After(Do("free"), A)
  <2>1. [[A.holds EXCEPT !["a"] = "write"] EXCEPT !["a"] = "no"] = A.holds
    BY LocksDiffer DEF Assertions
  <2>2. HoldsAfter(Unlock("a"), C) = A.holds
    BY <1>4, <1>6, <2>1 DEF HoldsAfter, RLock, Lock, Unlock, RUnlock, Do
  <2>3. KnowsAfter(Unlock("a"), C) = KnowsAfter(Do("free"), A)
    BY <1>6 DEF KnowsAfter, RLock, Lock, Unlock, RUnlock, Do
  <2>4. HoldsAfter(Do("free"), A) = A.holds
    BY DEF HoldsAfter, Do
  <2>5. QED
    BY <2>2, <2>3, <2>4 DEF After
<1>. HIDE DEF B, C
<1>10. Proves(B, <<Do("free")>>, C)
  BY <1>2, <1>7, ProvesOne DEF C
<1>11. Proves(B, <<Do("free")>> \o Log, C)
  BY <1>2, <1>3, <1>10, ProvesLog, ProvesThen
<1>12. QED
  BY <1>1, <1>2, <1>3, <1>8, <1>9, <1>11, ProvesSection DEF ClearTarget, B

\* SetTarget under cm: afterwards nothing is known of control.
LEMMA ProvesSetTarget ==
  ASSUME NEW F \in SUBSET Facts
  PROVE  Proves(Cm(F), SetTarget, Cm({}))
<1>. DEFINE A == Cm(F)
            B == After(Lock("a"), A)
            C == [holds |-> B.holds, knows |-> {}]
<1>1. A \in Assertions /\ "a" \in Locks /\ "cm" \in Locks /\ Cm({}) \in Assertions
  BY Contexts, LocksDiffer
<1>2. A.holds["cm"] = "write" /\ \A k \in Locks : k # "cm" => A.holds[k] = "no"
  BY LocksDiffer DEF Cm, Alone, NoLocks
<1>3. Ordered(A, "a")
  BY <1>2, LocksDiffer DEF Ordered
<1>4. B \in Assertions /\ Do("grab") \in Instructions /\ Do("arm") \in Instructions
  BY <1>1, LockInstructions, AfterType, StepInstructions DEF Steps
<1>5. B = [holds |-> [A.holds EXCEPT !["a"] = "write"], knows |-> A.knows]
  BY DEF After, HoldsAfter, KnowsAfter, RLock, Lock, Unlock, RUnlock, Do
<1>6. B.holds["cm"] = "write" /\ B.holds["a"] = "write"
  BY <1>1, <1>2, <1>5, LocksDiffer DEF Assertions
<1>7. C \in Assertions
  BY <1>4 DEF Assertions
<1>8. Allowed(Do("grab"), B) /\ Allowed(Do("arm"), C) /\ Allowed(Unlock("a"), C)
  BY <1>6, LocksDiffer DEF Allowed, StepAllowed, Do, Unlock
<1>9. Weaker(C, After(Do("grab"), B)) /\ Weaker(C, After(Do("arm"), C))
  BY DEF Weaker, After, HoldsAfter, Do
<1>10. After(Unlock("a"), C) = Cm({})
  <2>1. [[A.holds EXCEPT !["a"] = "write"] EXCEPT !["a"] = "no"] = A.holds
    BY <1>1, <1>2, LocksDiffer DEF Assertions
  <2>2. HoldsAfter(Unlock("a"), C) = A.holds
    BY <1>5, <2>1 DEF HoldsAfter, RLock, Lock, Unlock, RUnlock, Do
  <2>3. KnowsAfter(Unlock("a"), C) = {}
    BY DEF KnowsAfter, RLock, Lock, Unlock, RUnlock, Do
  <2>4. QED
    BY <2>2, <2>3 DEF After, Cm
<1>. HIDE DEF A, B, C
<1>11. Weaker(B, B) /\ Weaker(C, C)
  BY DEF Weaker
<1>12. Proves(B, <<Do("grab")>>, C)
  BY <1>4, <1>8, <1>9, <1>11, ProvesOne, ProvesAlso
<1>13. Proves(C, <<Do("arm")>>, C)
  BY <1>4, <1>7, <1>8, <1>9, <1>11, ProvesOne, ProvesAlso
<1>14. Proves(B, <<Do("grab")>> \o Log, C)
  BY <1>4, <1>7, <1>12, ProvesLog, ProvesThen
<1>15. Proves(B, <<Do("grab")>> \o Log \o <<Do("arm")>>, C)
  BY <1>4, <1>7, <1>13, <1>14, ProvesThen
<1>16. Proves(B, <<Do("grab")>> \o Log \o <<Do("arm")>> \o Log, C)
  BY <1>4, <1>7, <1>15, ProvesLog, ProvesThen
<1>17. QED
  BY <1>1, <1>3, <1>4, <1>7, <1>8, <1>10, <1>16, ProvesSection DEF SetTarget, A, B

\* The operations under cm end with the devices free, or had by the owner.
LEMMA ProvesRelinquish ==
  ASSUME NEW F \in SUBSET Facts
  PROVE  Proves(Cm(F), Relinquish, Cm({"clean"})) /\ Proves(Cm(F), ReturnsControl, Cm({"clean"}))
<1>. DEFINE B == After(Do("free"), Cm(F))
            C == After(Do("goLocal"), B)
<1>1. Cm(F) \in Assertions /\ Cm({"clean"}) \in Assertions
  BY Contexts DEF Facts
<1>2. /\ Cm(F).holds["cm"] = "write" /\ Cm(F).holds["a"] = "no" /\ Cm(F).holds["ssh"] = "no"
      /\ Cm(F).holds = Alone("cm", "write")
  BY LocksDiffer DEF Cm, Alone, NoLocks
<1>3. Do("free") \in Instructions /\ Do("goLocal") \in Instructions
  BY StepInstructions DEF Steps
<1>4. B \in Assertions /\ C \in Assertions
  BY <1>1, <1>3, AfterType
<1>5. /\ B.holds = Alone("cm", "write") /\ B.holds["cm"] = "write"
      /\ {"free", "clean"} \subseteq B.knows
  BY <1>2 DEF After, HoldsAfter, KnowsAfter, Do, Lock, Unlock, RLock, RUnlock
<1>6. Allowed(Do("goLocal"), B)
  BY <1>5 DEF Allowed, StepAllowed, Do
<1>7. C.holds = Alone("cm", "write") /\ "clean" \in C.knows
  BY <1>5 DEF After, HoldsAfter, KnowsAfter, Do, Lock, Unlock, RLock, RUnlock
<1>8. Weaker(Cm({"clean"}), C)
  BY <1>7 DEF Weaker, Cm
<1>. HIDE DEF B, C
<1>9. Proves(Cm(F), ClearTarget, B)
  BY <1>1, <1>2, ProvesClear DEF B
<1>10. Proves(B, <<Do("goLocal")>>, C)
  BY <1>3, <1>4, <1>6, ProvesOne DEF C
<1>11. Proves(Cm(F), ClearTarget \o <<Do("goLocal")>>, C)
  BY <1>1, <1>4, <1>9, <1>10, ProvesThen
<1>12. Proves(C, Log, Cm({"clean"}))
  BY <1>4, <1>8, ProvesLog, ProvesAlso DEF Weaker
<1>13. Proves(Cm(F), Relinquish, Cm({"clean"}))
  BY <1>1, <1>4, <1>11, <1>12, ProvesThen DEF Relinquish
<1>14. Proves(Cm(F), Log \o Relinquish, Cm({"clean"}))
  BY <1>1, <1>13, ProvesLog, ProvesThen
<1>15. QED
  BY <1>13, <1>14 DEF ReturnsControl

\* SwitchToLocal while a client has control tells the client first.
LEMMA ProvesGiveBack ==
  ASSUME NEW F \in SUBSET Facts, "remote" \in F
  PROVE  Proves(Cm(F), GiveBack, Cm({"clean"}))
<1>1. Cm(F) \in Assertions /\ Cm({"clean"}) \in Assertions
  BY Contexts DEF Facts
<1>2. Cm(F).holds["a"] = "no" /\ Cm(F).holds["ssh"] = "no" /\ "remote" \in Cm(F).knows
  BY LocksDiffer DEF Cm, Alone, NoLocks
<1>3. Proves(Cm(F), SendEventToClient, Cm(F))
  BY <1>1, <1>2, ProvesSend
<1>4. QED
  BY <1>1, <1>3, ProvesRelinquish, ProvesThen DEF GiveBack

\* SwitchToClient grabs before it goes remote, and writes to the client after.
LEMMA ProvesGrant ==
  ASSUME NEW F \in SUBSET Facts
  PROVE  Proves(Cm(F), Grant, Cm({"clean"}))
<1>. DEFINE B == After(Do("goRemote"), Cm({}))
<1>1. Cm(F) \in Assertions /\ Cm({}) \in Assertions /\ Cm({"clean"}) \in Assertions
  BY Contexts DEF Facts
<1>2. Do("goRemote") \in Instructions /\ Allowed(Do("goRemote"), Cm({}))
  BY StepInstructions, LocksDiffer
     DEF Steps, Allowed, StepAllowed, Do, Cm, Alone, NoLocks
<1>3. B \in Assertions
  BY <1>1, <1>2, AfterType
<1>4. B.holds = Alone("cm", "write") /\ {"remote", "clean"} \subseteq B.knows
  BY DEF After, HoldsAfter, KnowsAfter, Do, Lock, Unlock, RLock, RUnlock, Cm
<1>5. B.holds["a"] = "no" /\ B.holds["ssh"] = "no" /\ "remote" \in B.knows
  BY <1>4, LocksDiffer DEF Alone, NoLocks
<1>6. Weaker(Cm({"clean"}), B)
  BY <1>4 DEF Weaker, Cm
<1>. HIDE DEF B
<1>7. Proves(B, Log, B) /\ Proves(B, SendEventToClient, B)
  BY <1>3, <1>5, ProvesLog, ProvesSend
<1>8. Proves(Cm(F), SetTarget \o <<Do("goRemote")>>, B)
  BY <1>1, <1>2, <1>3, ProvesSetTarget, ProvesOne, ProvesThen DEF B
<1>9. Proves(Cm(F), SetTarget \o <<Do("goRemote")>> \o Log, B)
  BY <1>1, <1>3, <1>7, <1>8, ProvesThen
<1>10. Proves(Cm(F), SetTarget \o <<Do("goRemote")>> \o Log \o SendEventToClient, B)
  BY <1>1, <1>3, <1>7, <1>9, ProvesThen
<1>11. Proves(Cm(F), SetTarget \o <<Do("goRemote")>> \o Log \o SendEventToClient \o Log, B)
  BY <1>1, <1>3, <1>7, <1>10, ProvesThen
<1>12. Proves(Cm(F), SetTarget \o <<Do("goRemote")>> \o Log \o SendEventToClient \o Log
                       \o SendEventToClient, B)
  BY <1>1, <1>3, <1>7, <1>11, ProvesThen
<1>13. Proves(B, Log, Cm({"clean"}))
  BY <1>6, <1>7, ProvesAlso DEF Weaker
<1>14. QED
  BY <1>1, <1>3, <1>12, <1>13, ProvesThen DEF Grant

\* A step.
LEMMA ProvesStep ==
  ASSUME NEW A \in Assertions, NEW B \in Assertions, NEW step \in Steps,
         StepAllowed(step, A), Weaker(B, After(Do(step), A))
  PROVE  Proves(A, <<Do(step)>>, B)
<1>1. Do(step) \in Instructions
  BY StepInstructions
<1>2. Allowed(Do(step), A)
  BY DEF Allowed, Do
<1>3. Weaker(A, A)
  BY DEF Weaker
<1>4. QED
  BY <1>1, <1>2, <1>3, ProvesOne, ProvesAlso

\* A hand-over whose grab fails changes nothing the manager relies on.
LEMMA ProvesGrantFails ==
  ASSUME NEW F \in SUBSET Facts, "clean" \in F
  PROVE  Proves(Cm(F), GrantFails, Cm({"clean"}))
<1>. DEFINE A == Cm(F)
            B == After(Lock("a"), A)
<1>1. A \in Assertions /\ "a" \in Locks /\ "cm" \in Locks /\ Cm({"clean"}) \in Assertions
  BY Contexts, LocksDiffer DEF Facts
<1>2. A.holds["cm"] = "write" /\ \A k \in Locks : k # "cm" => A.holds[k] = "no"
  BY LocksDiffer DEF Cm, Alone, NoLocks
<1>3. Ordered(A, "a")
  BY <1>2, LocksDiffer DEF Ordered
<1>4. B \in Assertions /\ "partial" \in Steps
  BY <1>1, LockInstructions, AfterType DEF Steps
<1>5. B = [holds |-> [A.holds EXCEPT !["a"] = "write"], knows |-> A.knows]
  BY DEF After, HoldsAfter, KnowsAfter, RLock, Lock, Unlock, RUnlock, Do
<1>6. B.holds["a"] = "write"
  BY <1>1, <1>5 DEF Assertions
<1>7. Allowed(Unlock("a"), B)
  BY <1>6, LocksDiffer DEF Allowed, Unlock
<1>8. After(Unlock("a"), B) = A
  <2>1. [[A.holds EXCEPT !["a"] = "write"] EXCEPT !["a"] = "no"] = A.holds
    BY <1>1, <1>2, LocksDiffer DEF Assertions
  <2>2. HoldsAfter(Unlock("a"), B) = A.holds
    BY <1>5, <2>1 DEF HoldsAfter, RLock, Lock, Unlock, RUnlock, Do
  <2>3. KnowsAfter(Unlock("a"), B) = A.knows
    BY <1>5 DEF KnowsAfter, RLock, Lock, Unlock, RUnlock, Do
  <2>4. QED
    BY <2>2, <2>3 DEF After, Cm
<1>9. StepAllowed("partial", B) /\ Weaker(B, After(Do("partial"), B))
  <2>1. HoldsAfter(Do("partial"), B) = B.holds
    BY DEF HoldsAfter, Do
  <2>2. KnowsAfter(Do("partial"), B) = B.knows
    BY DEF KnowsAfter, Do, Lock, RLock, Unlock, RUnlock
  <2>3. QED
    BY <2>1, <2>2 DEF StepAllowed, Weaker, After
<1>10. Weaker(Cm({"clean"}), A) /\ Weaker(A, A)
  BY DEF Weaker, Cm
<1>. HIDE DEF A, B
<1>11. Proves(B, <<Do("partial")>>, B)
  BY <1>4, <1>9, ProvesStep
<1>12. Proves(B, <<Do("partial")>> \o Log, B)
  BY <1>4, <1>11, ProvesLog, ProvesThen
<1>13. Proves(A, SetTargetFails, A)
  BY <1>1, <1>3, <1>4, <1>7, <1>8, <1>12, ProvesSection DEF SetTargetFails, B
<1>14. Proves(A, GrantFails, A)
  BY <1>1, <1>13, ProvesLog, ProvesThen DEF GrantFails
<1>15. QED
  BY <1>10, <1>14, ProvesAlso DEF A

\* What a lock operation does to an assertion.
LEMMA AfterLock ==
  ASSUME NEW A, NEW l \in Locks
  PROVE  /\ HoldsAfter(Lock(l), A) = [A.holds EXCEPT ![l] = "write"]
         /\ HoldsAfter(RLock(l), A) = [A.holds EXCEPT ![l] = "read"]
         /\ HoldsAfter(Unlock(l), A) = [A.holds EXCEPT ![l] = "no"]
         /\ HoldsAfter(RUnlock(l), A) = [A.holds EXCEPT ![l] = "no"]
         /\ l = "cm" => /\ KnowsAfter(Lock(l), A) = A.knows \cup {"clean"}
                        /\ KnowsAfter(RLock(l), A) = A.knows \cup {"clean"}
                        /\ KnowsAfter(Unlock(l), A) = A.knows \cap {"quiet"}
                        /\ KnowsAfter(RUnlock(l), A) = A.knows \cap {"quiet"}
         /\ l # "cm" => \A x \in {Lock(l), RLock(l), Unlock(l), RUnlock(l)} :
                          KnowsAfter(x, A) = A.knows
<1>1. /\ HoldsAfter(Lock(l), A) = [A.holds EXCEPT ![l] = "write"]
      /\ HoldsAfter(RLock(l), A) = [A.holds EXCEPT ![l] = "read"]
      /\ HoldsAfter(Unlock(l), A) = [A.holds EXCEPT ![l] = "no"]
      /\ HoldsAfter(RUnlock(l), A) = [A.holds EXCEPT ![l] = "no"]
  BY DEF HoldsAfter, Lock, RLock, Unlock, RUnlock, Do
<1>2. CASE l = "cm"
  BY <1>1, <1>2 DEF KnowsAfter, Lock, RLock, Unlock, RUnlock, Do
<1>3. CASE l # "cm"
  BY <1>1, <1>3 DEF KnowsAfter, Lock, RLock, Unlock, RUnlock, Do
<1>4. QED
  BY <1>1, <1>2, <1>3

\* A section of cm whose body starts and ends clean, and the same for readers.
LEMMA ProvesCmSection ==
  ASSUME NEW F \in SUBSET Facts, NEW G \in SUBSET Facts, "clean" \in G, NEW body,
         Proves(Cm({"clean"}), body, Cm(G))
  PROVE  Proves(No(F), Section("cm", body), Done)
<1>1. No(F) \in Assertions /\ Cm(G) \in Assertions /\ "cm" \in Locks /\ Done \in Assertions
  BY Contexts, LocksDiffer
<1>2. Ordered(No(F), "cm")
  BY DEF Ordered, No, NoLocks
<1>3. Weaker(Cm({"clean"}), After(Lock("cm"), No(F)))
  <2>1. HoldsAfter(Lock("cm"), No(F)) = Alone("cm", "write")
    BY <1>1, AfterLock DEF No, Alone
  <2>2. "clean" \in KnowsAfter(Lock("cm"), No(F))
    BY <1>1, AfterLock
  <2>3. QED
    BY <2>1, <2>2 DEF Weaker, After, Cm
<1>4. Proves(After(Lock("cm"), No(F)), body, Cm(G))
  BY <1>3, ProvesAlso DEF Weaker
<1>5. Allowed(Unlock("cm"), Cm(G))
  BY LocksDiffer DEF Allowed, Unlock, Cm, Alone, NoLocks
<1>6. Weaker(Done, After(Unlock("cm"), Cm(G)))
  <2>1. [Alone("cm", "write") EXCEPT !["cm"] = "no"] = NoLocks
    BY LocksDiffer DEF Alone, NoLocks
  <2>2. QED
    BY <2>1 DEF Weaker, After, HoldsAfter, Unlock, Cm, Done
<1>7. QED
  BY <1>1, <1>2, <1>4, <1>5, <1>6, ProvesSection, ProvesAlso DEF Weaker

\* A reader's section of cm, from no lock to no lock.
LEMMA ProvesCmRead ==
  ASSUME NEW F \in SUBSET Facts, NEW body, Proves(CmRead({}), body, CmRead({}))
  PROVE  Proves(No(F), ReadSection("cm", body), Done)
<1>1. No(F) \in Assertions /\ CmRead({}) \in Assertions /\ "cm" \in Locks /\ Done \in Assertions
  BY Contexts, LocksDiffer
<1>2. Ordered(No(F), "cm")
  BY DEF Ordered, No, NoLocks
<1>3. Weaker(CmRead({}), After(RLock("cm"), No(F)))
  <2>1. HoldsAfter(RLock("cm"), No(F)) = Alone("cm", "read")
    BY <1>1, AfterLock DEF No, Alone
  <2>2. QED
    BY <2>1 DEF Weaker, After, CmRead
<1>4. Proves(After(RLock("cm"), No(F)), body, CmRead({}))
  BY <1>3, ProvesAlso DEF Weaker
<1>5. Allowed(RUnlock("cm"), CmRead({}))
  BY LocksDiffer DEF Allowed, RUnlock, CmRead, Alone, NoLocks
<1>6. Weaker(Done, After(RUnlock("cm"), CmRead({})))
  <2>1. [Alone("cm", "read") EXCEPT !["cm"] = "no"] = NoLocks
    BY LocksDiffer DEF Alone, NoLocks
  <2>2. QED
    BY <2>1 DEF Weaker, After, HoldsAfter, RUnlock, CmRead, Done
<1>7. QED
  BY <1>1, <1>2, <1>4, <1>5, <1>6, ProvesReadSection, ProvesAlso DEF Weaker

\* A section of the channel or the backend taken by nobody who holds a lock.
LEMMA ProvesShortSection ==
  ASSUME NEW F \in SUBSET Facts, NEW l \in {"ssh", "a"}, NEW body,
         LET A == [holds |-> Alone(l, "write"), knows |-> {}]
         IN Proves(A, body, A)
  PROVE  Proves(No(F), Section(l, body), Done)
<1>. DEFINE A == [holds |-> Alone(l, "write"), knows |-> {}]
<1>1. No(F) \in Assertions /\ l \in Locks /\ Done \in Assertions /\ A \in Assertions
  BY Contexts, LocksDiffer DEF Assertions, Alone, NoLocks, Modes
<1>2. Ordered(No(F), l)
  BY DEF Ordered, No, NoLocks
<1>3. Weaker(A, After(Lock(l), No(F)))
  <2>1. l \in Locks
    BY <1>1
  <2>2. HoldsAfter(Lock(l), No(F)) = [No(F).holds EXCEPT ![l] = "write"]
    BY <2>1, AfterLock
  <2>3. QED
    BY <2>2 DEF Weaker, After, No, Alone
<1>4. Proves(After(Lock(l), No(F)), body, A)
  BY <1>3, ProvesAlso DEF Weaker
<1>5. Allowed(Unlock(l), A)
  BY <1>1, LocksDiffer DEF Allowed, Unlock, Alone, NoLocks
<1>6. Weaker(Done, After(Unlock(l), A))
  <2>1. [Alone(l, "write") EXCEPT ![l] = "no"] = NoLocks
    BY <1>1, LocksDiffer DEF Alone, NoLocks
  <2>2. QED
    BY <2>1 DEF Weaker, After, HoldsAfter, Unlock, Done
<1>. HIDE DEF A
<1>7. Proves(No(F), Section(l, body), After(Unlock(l), A))
  BY <1>1, <1>2, <1>4, <1>5, ProvesSection
<1>8. QED
  BY <1>1, <1>6, <1>7, ProvesAlso DEF Weaker

\* The bodies of the operations that hold cm for writing.
LEMMA CmSteps ==
  ASSUME NEW step \in {"release", "grant", "rotate", "unregister", "register"}
  PROVE  Proves(Cm({"clean"}), <<Do(step)>>, Cm({"clean"}))
<1>1. Cm({"clean"}) \in Assertions /\ step \in Steps
  BY Contexts DEF Facts, Steps
<1>2. StepAllowed(step, Cm({"clean"}))
  BY DEF StepAllowed, Cm
<1>3. HoldsAfter(Do(step), Cm({"clean"})) = Alone("cm", "write")
  BY DEF HoldsAfter, Do, Cm
<1>4. KnowsAfter(Do(step), Cm({"clean"})) = {"clean"}
  BY DEF KnowsAfter, Do, Cm, Lock, RLock, Unlock, RUnlock
<1>5. Weaker(Cm({"clean"}), After(Do(step), Cm({"clean"})))
  BY <1>3, <1>4 DEF Weaker, After, Cm
<1>6. QED
  BY <1>1, <1>2, <1>5, ProvesStep

\* The manager's operations, for callers that hold no lock.
LEMMA ProvesOperations ==
  ASSUME NEW F \in SUBSET Facts
  PROVE  /\ Proves(No(F), SwitchToLocal, Done)
         /\ Proves(No(F), SwitchToClient, Done)
         /\ Proves(No(F), MarkEmergencyRelease, Done)
         /\ Proves(No(F), ReadSection("cm", <<>>), Done)
<1>1. No(F) \in Assertions /\ Cm({"clean"}) \in Assertions /\ CmRead({}) \in Assertions
  BY Contexts DEF Facts
<1>2. {"clean"} \in SUBSET Facts
  BY DEF Facts
<1>3. Proves(No(F), SwitchToLocal, Done)
  BY <1>2, CmSteps, ProvesCmSection DEF SwitchToLocal
<1>4. Proves(No(F), SwitchToClient, Done)
  BY <1>2, CmSteps, ProvesCmSection DEF SwitchToClient
<1>5. Proves(No(F), MarkEmergencyRelease, Done)
  BY <1>1, <1>2, ProvesLog, ProvesCmSection DEF MarkEmergencyRelease
<1>6. Proves(No(F), ReadSection("cm", <<>>), Done)
  <2>1. Weaker(CmRead({}), CmRead({}))
    BY DEF Weaker
  <2>2. Proves(CmRead({}), <<>>, CmRead({}))
    BY <1>1, <2>1, ProvesNothing
  <2>3. QED
    BY <2>2, ProvesCmRead
<1>7. QED
  BY <1>3, <1>4, <1>5, <1>6

\* A goroutine is done when it holds nothing, whatever it knows.
LEMMA DoneIsNo == Done \in Assertions /\ Done = No({}) /\ {} \in SUBSET Facts
  BY Contexts

\* The interface's refresh reads the registry twice.
LEMMA ProvesRefresh ==
  ASSUME NEW F \in SUBSET Facts
  PROVE  Proves(No(F), RefreshClientList, Done)
<1>1. No(F) \in Assertions
  BY Contexts
<1>2. QED
  BY <1>1, DoneIsNo, ProvesOperations, ProvesThen DEF RefreshClientList

\* "waymon switch": the rotation, then the answer.
LEMMA ProvesSwitchNext ==
  ASSUME NEW F \in SUBSET Facts
  PROVE  Proves(No(F), SwitchNext, Done)
<1>1. No(F) \in Assertions /\ {"clean"} \in SUBSET Facts
  BY Contexts DEF Facts
<1>2. Proves(No(F), Section("cm", <<Do("rotate")>>), Done)
  BY <1>1, CmSteps, ProvesCmSection
<1>3. Proves(Done, <<Do("answer")>>, Done)
  <2>1. StepAllowed("answer", Done) /\ "answer" \in Steps
    BY DEF StepAllowed, Steps, Done
  <2>2. HoldsAfter(Do("answer"), Done) = NoLocks
    BY DEF HoldsAfter, Do
  <2>3. QED
    BY <2>1, <2>2, DoneIsNo, ProvesStep DEF Weaker, After, Done
<1>4. QED
  BY <1>1, <1>2, <1>3, DoneIsNo, ProvesThen DEF SwitchNext

\* The session's goroutine registers and unregisters its client.
LEMMA ProvesRegistration ==
  ASSUME NEW F \in SUBSET Facts
  PROVE  Proves(No(F), RegisterClient, Done) /\ Proves(No(F), UnregisterClient, Done)
<1>1. No(F) \in Assertions /\ {"clean"} \in SUBSET Facts /\ Cm({"clean"}) \in Assertions
  BY Contexts DEF Facts
<1>2. Proves(No(F), Section("ssh", <<>>), Done)
  <2>. DEFINE A == [holds |-> Alone("ssh", "write"), knows |-> {}]
  <2>1. A \in Assertions /\ Weaker(A, A)
    BY LocksDiffer DEF Assertions, Alone, NoLocks, Modes, Weaker
  <2>2. Proves(A, <<>>, A)
    BY <2>1, ProvesNothing
  <2>3. QED
    BY <2>2, ProvesShortSection
<1>3. ASSUME NEW step \in {"register", "unregister"}
      PROVE  Proves(No(F), Section("ssh", <<>>)
                             \o Section("cm", <<Do(step)>> \o Log \o Refresh) \o Log, Done)
  <2>1. Proves(Cm({"clean"}), <<Do(step)>>, Cm({"clean"}))
    BY CmSteps
  <2>2. Proves(Cm({"clean"}), <<Do(step)>> \o Log, Cm({"clean"}))
    BY <1>1, <2>1, ProvesLog, ProvesThen
  <2>3. Proves(Cm({"clean"}), <<Do(step)>> \o Log \o Refresh, Cm({"clean"}))
    BY <1>1, <2>2, ProvesLog, ProvesThen
  <2>4. Proves(Done, Section("cm", <<Do(step)>> \o Log \o Refresh), Done)
    BY <1>1, <2>3, DoneIsNo, ProvesCmSection
  <2>5. Proves(No(F), Section("ssh", <<>>)
                        \o Section("cm", <<Do(step)>> \o Log \o Refresh), Done)
    BY <1>1, <1>2, <2>4, DoneIsNo, ProvesThen
  <2>6. QED
    BY <1>1, <2>5, DoneIsNo, ProvesLog, ProvesThen
<1>4. QED
  BY <1>3 DEF RegisterClient, UnregisterClient

\* The three ways back to local control that begin outside the manager.
LEMMA ProvesReleases ==
  ASSUME NEW F \in SUBSET Facts
  PROVE  /\ Proves(No(F), Escape, Done)
         /\ Proves(No(F), TimerFires, Done)
         /\ Proves(No(F), TriggerRelease, Done)
         /\ Proves(No(F), Log \o SwitchToLocal, Done)
<1>1. No(F) \in Assertions /\ Weaker(Done, No(F))
  BY Contexts DEF Weaker, Done, No
<1>2. Proves(No(F), ClearTarget, Done)
  <2>1. No(F).holds["ssh"] = "no" /\ No(F).holds["a"] = "no"
    BY LocksDiffer DEF No, NoLocks
  <2>2. Proves(No(F), ClearTarget, After(Do("free"), No(F)))
    BY <1>1, <2>1, ProvesClear
  <2>3. HoldsAfter(Do("free"), No(F)) = NoLocks
    BY DEF HoldsAfter, Do, No
  <2>4. Weaker(Done, After(Do("free"), No(F)))
    BY <2>3 DEF Weaker, After, Done
  <2>5. QED
    BY <2>2, <2>4, ProvesAlso DEF Weaker
<1>3. Proves(No(F), Log, Done)
  BY <1>1, ProvesLog, ProvesAlso DEF Weaker
<1>4. /\ Proves(Done, SwitchToLocal, Done) /\ Proves(Done, MarkEmergencyRelease, Done)
      /\ Proves(Done, Log, Done)
  BY DoneIsNo, ProvesOperations, ProvesLog
<1>5. Proves(No(F), Escape, Done)
  <2>1. Proves(No(F), ClearTarget \o Log, Done)
    BY <1>1, <1>2, <1>4, DoneIsNo, ProvesThen
  <2>2. Proves(No(F), ClearTarget \o Log \o MarkEmergencyRelease, Done)
    BY <1>1, <2>1, <1>4, DoneIsNo, ProvesThen
  <2>3. QED
    BY <1>1, <2>2, <1>4, DoneIsNo, ProvesThen DEF Escape
<1>6. Proves(No(F), TriggerRelease, Done)
  <2>1. Proves(No(F), Log \o MarkEmergencyRelease, Done)
    BY <1>1, <1>3, <1>4, DoneIsNo, ProvesThen
  <2>2. QED
    BY <1>1, <2>1, <1>4, DoneIsNo, ProvesThen DEF TriggerRelease
<1>7. Proves(No(F), Log \o SwitchToLocal, Done)
  BY <1>1, <1>3, <1>4, DoneIsNo, ProvesThen
<1>8. Proves(Done, Section("a", <<Do("expire")>>), Done)
  <2>. DEFINE A == [holds |-> Alone("a", "write"), knows |-> {}]
  <2>1. A \in Assertions
    BY LocksDiffer DEF Assertions, Alone, NoLocks, Modes
  <2>2. HoldsAfter(Do("expire"), A) = Alone("a", "write")
    BY DEF HoldsAfter, Do
  <2>3. Weaker(A, After(Do("expire"), A)) /\ StepAllowed("expire", A) /\ "expire" \in Steps
    BY <2>2 DEF Weaker, After, StepAllowed, Steps
  <2>4. Proves(A, <<Do("expire")>>, A)
    BY <2>1, <2>3, ProvesStep
  <2>5. QED
    BY <2>4, DoneIsNo, ProvesShortSection
<1>9. Proves(No(F), TimerFires, Done)
  BY <1>1, <1>3, <1>8, DoneIsNo, ProvesThen DEF TimerFires
<1>10. QED
  BY <1>5, <1>6, <1>7, <1>9

\* What begins with a question under a reader's lock.
LEMMA ProvesQuestions ==
  ASSUME NEW F \in SUBSET Facts
  PROVE  /\ Proves(No(F), Tab, Done)
         /\ Proves(No(F), Input, Done)
         /\ Proves(No(F), <<RLock("a"), Do("peek")>>, Done)
         /\ "quiet" \in F => Proves(No(F), <<RLock("a"), Do("chord")>>, Done)
<1>1. /\ No(F) \in Assertions /\ CmRead({}) \in Assertions /\ ARead(F) \in Assertions
      /\ Done \in Assertions
  BY Contexts
<1>2. ASSUME NEW l \in {"cm", "a"}
      PROVE  /\ [holds |-> Alone(l, "read"), knows |-> IF l = "cm" THEN {} ELSE F] \in Assertions
             /\ Proves(No(F), <<RLock(l)>>,
                       [holds |-> Alone(l, "read"), knows |-> IF l = "cm" THEN {} ELSE F])
  <2>. DEFINE A == [holds |-> Alone(l, "read"), knows |-> IF l = "cm" THEN {} ELSE F]
  <2>1. l \in Locks /\ A \in Assertions
    BY LocksDiffer DEF Assertions, Alone, NoLocks, Modes
  <2>2. Allowed(RLock(l), No(F))
    BY DEF Allowed, Ordered, RLock, No, NoLocks
  <2>3. HoldsAfter(RLock(l), No(F)) = [No(F).holds EXCEPT ![l] = "read"]
    BY <2>1, AfterLock
  <2>4. l # "cm" => KnowsAfter(RLock(l), No(F)) = No(F).knows
    BY <2>1, AfterLock
  <2>5. Weaker(A, After(RLock(l), No(F)))
    BY <2>3, <2>4 DEF Weaker, After, No, Alone
  <2>. HIDE DEF A
  <2>6. Weaker(No(F), No(F))
    BY DEF Weaker
  <2>7. Proves(No(F), <<RLock(l)>>, A)
    BY <1>1, <2>1, <2>2, <2>5, <2>6, LockInstructions, ProvesOne, ProvesAlso
  <2>8. QED
    BY <2>1, <2>7 DEF A
<1>3. Proves(No(F), <<RLock("cm")>>, CmRead({})) /\ Proves(No(F), <<RLock("a")>>, ARead(F))
  BY <1>2 DEF CmRead, ARead
<1>4. Proves(CmRead({}), <<Do("next")>>, Done)
  <2>1. StepAllowed("next", CmRead({})) /\ "next" \in Steps
    BY DEF StepAllowed, CmRead, Steps
  <2>2. HoldsAfter(Do("next"), CmRead({})) = NoLocks
    BY DEF HoldsAfter, Do
  <2>3. QED
    BY <1>1, <2>1, <2>2, ProvesStep DEF Weaker, After, Done
<1>5. Proves(CmRead({}), <<Do("route")>>, CmRead({}))
  <2>1. StepAllowed("route", CmRead({})) /\ "route" \in Steps
    BY DEF StepAllowed, CmRead, Steps
  <2>2. HoldsAfter(Do("route"), CmRead({})) = Alone("cm", "read")
    BY DEF HoldsAfter, Do, CmRead
  <2>3. Weaker(CmRead({}), After(Do("route"), CmRead({})))
    BY <2>2 DEF Weaker, After, CmRead
  <2>4. QED
    BY <1>1, <2>1, <2>3, ProvesStep
<1>6. Proves(ARead(F), <<Do("peek")>>, Done)
  <2>1. StepAllowed("peek", ARead(F)) /\ "peek" \in Steps
    BY DEF StepAllowed, ARead, Steps
  <2>2. HoldsAfter(Do("peek"), ARead(F)) = NoLocks
    BY DEF HoldsAfter, Do
  <2>3. QED
    BY <1>1, <2>1, <2>2, ProvesStep DEF Weaker, After, Done
<1>7. ASSUME "quiet" \in F
      PROVE  Proves(ARead(F), <<Do("chord")>>, Done)
  <2>1. StepAllowed("chord", ARead(F)) /\ "chord" \in Steps
    BY <1>7 DEF StepAllowed, ARead, Steps
  <2>2. HoldsAfter(Do("chord"), ARead(F)) = NoLocks
    BY DEF HoldsAfter, Do
  <2>3. QED
    BY <1>1, <2>1, <2>2, ProvesStep DEF Weaker, After, Done
<1>8. /\ Tab = <<RLock("cm")>> \o <<Do("next")>>
      /\ <<RLock("a"), Do("peek")>> = <<RLock("a")>> \o <<Do("peek")>>
      /\ <<RLock("a"), Do("chord")>> = <<RLock("a")>> \o <<Do("chord")>>
  BY DEF Tab
<1>9. Proves(No(F), Input, Done)
  BY <1>5, ProvesCmRead DEF Input
<1>10. QED
  BY <1>1, <1>3, <1>4, <1>6, <1>7, <1>8, <1>9, ProvesThen

\* A device's event, put into the channel or dropped with a line.
LEMMA ProvesEvent ==
  ASSUME NEW F \in SUBSET Facts
  PROVE  Proves(No(F), Section("a", <<Do("reset")>>) \o <<Do("enqueue")>>, Done)
<1>1. No(F) \in Assertions
  BY Contexts
<1>2. Proves(No(F), Section("a", <<Do("reset")>>), Done)
  <2>. DEFINE A == [holds |-> Alone("a", "write"), knows |-> {}]
  <2>1. A \in Assertions /\ Weaker(A, A)
    BY LocksDiffer DEF Assertions, Alone, NoLocks, Modes, Weaker
  <2>2. HoldsAfter(Do("reset"), A) = A.holds
    BY DEF HoldsAfter, Do
  <2>3. Weaker(A, After(Do("reset"), A)) /\ StepAllowed("reset", A) /\ "reset" \in Steps
    BY <2>2 DEF Weaker, After, StepAllowed, Steps
  <2>4. Proves(A, <<Do("reset")>>, A)
    BY <2>1, <2>3, ProvesStep
  <2>5. QED
    BY <2>4, ProvesShortSection
<1>3. Proves(Done, <<Do("enqueue")>>, Done)
  <2>1. StepAllowed("enqueue", Done) /\ "enqueue" \in Steps
    BY DEF StepAllowed, Steps
  <2>2. HoldsAfter(Do("enqueue"), Done) = NoLocks
    BY DEF HoldsAfter, Do, Done
  <2>3. QED
    BY <2>1, <2>2, DoneIsNo, ProvesStep DEF Weaker, After, Done
<1>4. QED
  BY <1>1, <1>2, <1>3, DoneIsNo, ProvesThen

-----------------------------------------------------------------------------
(* The inductive invariant.                                                *)

\* What each goroutine has to do is proved from what is the case for it.
Carried == \A g \in AllRoutines : Proves(StateOf(g), todo[g], Done)

\* A lock had for writing has no readers; who waits to read does nothing else, and
\* waits for a writer.
Exclusive ==
  \A g \in AllRoutines, l \in Locks :
    /\ Holds(g)[l] = "write" => readers[l] = {}
    /\ g \in pending[l] =>
         Waits(RLock(l), todo[g]) /\ g \notin readers[l] /\ writer[l] # Nobody

Owned == target /\ local => \E g \in Routines : Holds(g)["cm"] = "write"

LockInv == TypeOK /\ Carried /\ Exclusive /\ Owned

\* What is the case for a goroutine is an assertion, in any state.
LEMMA StateType ==
  ASSUME NEW g, NEW w, NEW r, NEW s, NEW isLocal, NEW hasTarget, NEW escape
  PROVE  /\ HoldsOf(g, w, r, s) \in [Locks -> Modes]
         /\ [holds |-> HoldsOf(g, w, r, s),
             knows |-> FactsOf(g, HoldsOf(g, w, r, s), isLocal, hasTarget, escape)]
              \in Assertions
<1>1. HoldsOf(g, w, r, s) \in [Locks -> Modes]
  BY DEF HoldsOf, ModeOf, Modes
<1>2. FactsOf(g, HoldsOf(g, w, r, s), isLocal, hasTarget, escape) \in SUBSET Facts
  BY DEF FactsOf
<1>3. QED
  BY <1>1, <1>2 DEF Assertions

\* What is the case for a goroutine is an assertion.
LEMMA StateOfType == \A g : StateOf(g) \in Assertions /\ Holds(g) \in [Locks -> Modes]
  BY StateType DEF StateOf, Holds, Knows

\* A goroutine whose work is proved does not ask for what it has: what it has been
\* given is what it holds.
LEMMA Steady ==
  ASSUME NEW g, NEW w, NEW r, NEW s, NEW A \in Assertions, Proves(A, s, Done),
         \A l \in Locks : Raw(g, w, r, l) = A.holds[l]
  PROVE  HoldsOf(g, w, r, s) = A.holds
<1>1. ASSUME NEW l \in Locks
      PROVE  ModeOf(g, w, r, s, l) = A.holds[l]
  <2>1. CASE A.holds[l] = "no"
    BY <2>1 DEF Raw, ModeOf
  <2>2. CASE A.holds[l] # "no"
    <3>1. ~Waits(Lock(l), s) /\ ~Waits(RLock(l), s)
      <4>1. SUFFICES ASSUME s # <<>>, Head(s) \in {Lock(l), RLock(l)}
                     PROVE  FALSE
        BY DEF Waits
      <4>2. Allowed(Head(s), A)
        BY <4>1, DoneIsNo, ProvesRest
      <4>3. Ordered(A, l)
        BY <4>1, <4>2 DEF Allowed, Lock, RLock
      <4>4. QED
        BY <2>2, <4>3 DEF Ordered
    <3>2. QED
      BY <2>2, <3>1 DEF Raw, ModeOf
  <2>3. QED
    BY <2>1, <2>2
<1>2. A.holds \in [Locks -> Modes]
  BY DEF Assertions
<1>3. QED
  BY <1>1, <1>2 DEF HoldsOf

\* How a step keeps everyone's work proved: a goroutine either has the same to do,
\* holds what it held and knows no less, or it has moved and its work is proved from
\* an assertion that is the case.
Undisturbed(h) ==
  /\ todo'[h] = todo[h] /\ Holds(h)' = Holds(h)
  /\ Holds(h)["cm"] # "no" =>
       (local' => local) /\ (target' => target) /\ (local' /\ target' => local /\ target)
  /\ h = "device" /\ todo["escape"] = <<>> => todo'["escape"] = <<>>

Moved(h, A) ==
  /\ A \in Assertions /\ Proves(A, todo'[h], Done)
  /\ \A l \in Locks : Raw(h, writer', readers', l) = A.holds[l]
  /\ A.knows \subseteq FactsOf(h, A.holds, local', target', todo'["escape"])

\* If that is so of everyone, everyone's work stays proved.
LEMMA CarriedOn ==
  ASSUME Carried, \A h \in AllRoutines : Undisturbed(h) \/ \E A : Moved(h, A)
  PROVE  Carried'
<1>1. SUFFICES ASSUME NEW h \in AllRoutines
               PROVE  Proves(StateOf(h)', todo'[h], Done)
  BY DEF Carried
<1>2. CASE Undisturbed(h)
  <2>1. Proves(StateOf(h), todo[h], Done)
    BY DEF Carried
  <2>2. Knows(h) \subseteq Knows(h)'
    BY <1>2 DEF Undisturbed, Knows, FactsOf, IsFact
  <2>3. Weaker(StateOf(h), StateOf(h)')
    BY <1>2, <2>2 DEF Undisturbed, StateOf, Weaker
  <2>4. QED
    BY <1>2, <2>1, <2>3, ProvesAlso DEF Undisturbed, Weaker
<1>3. CASE \E A : Moved(h, A)
  <2>1. PICK A : Moved(h, A)
    BY <1>3
  <2>2. HoldsOf(h, writer', readers', todo'[h]) = A.holds
    BY <2>1, Steady DEF Moved
  <2>3. Holds(h)' = A.holds
    BY <2>2 DEF Holds
  <2>4. A.knows \subseteq Knows(h)'
    BY <2>1, <2>3 DEF Moved, Knows
  <2>5. Weaker(A, StateOf(h)')
    BY <2>3, <2>4 DEF StateOf, Weaker
  <2>6. QED
    BY <2>1, <2>5, ProvesAlso DEF Moved, Weaker
<1>4. QED
  BY <1>2, <1>3

\* What a goroutine is at is allowed, and its rest is proved.
LEMMA AtWork ==
  ASSUME LockInv, NEW g \in AllRoutines, NEW x, Current(g) = x, x[1] # "idle"
  PROVE  /\ todo[g] # <<>> /\ Head(todo[g]) = x
         /\ x \in Instructions /\ Allowed(x, StateOf(g))
         /\ Proves(After(x, StateOf(g)), Rest(g), Done)
         /\ After(x, StateOf(g)) \in Assertions
         /\ Rest(g) \in Seq(Instructions)
<1>1. todo[g] # <<>> /\ Head(todo[g]) = x
  BY DEF Current, Idle
<1>2. Proves(StateOf(g), todo[g], Done) /\ StateOf(g) \in Assertions /\ Done \in Assertions
  BY StateOfType, DoneIsNo DEF LockInv, Carried
<1>3. /\ x \in Instructions /\ Allowed(x, StateOf(g))
      /\ Proves(After(x, StateOf(g)), Tail(todo[g]), Done)
  BY <1>1, <1>2, ProvesRest
<1>4. QED
  BY <1>1, <1>2, <1>3, AfterType DEF Rest, Proves

\* Who holds a lock for writing holds it alone.
LEMMA WriterAlone ==
  ASSUME LockInv, NEW g \in AllRoutines, NEW h \in AllRoutines, g # h, NEW l \in Locks,
         Holds(g)[l] = "write"
  PROVE  Holds(h)[l] = "no"
<1>1. readers[l] = {}
  BY DEF LockInv, Exclusive
<1>2. writer[l] = g
  BY DEF Holds, HoldsOf, ModeOf
<1>3. QED
  BY <1>1, <1>2 DEF Holds, HoldsOf, ModeOf

\* The shape in which the properties and the assertions speak of locks.
LEMMA HoldsMeans ==
  ASSUME NEW g, NEW l \in Locks
  PROVE  /\ Current(g) = Lock(l) <=> Waits(Lock(l), todo[g])
         /\ Current(g) = RLock(l) <=> Waits(RLock(l), todo[g])
         /\ Holds(g)[l] = "write" <=> Writes(g, l)
         /\ Holds(g)[l] # "no" <=> Writes(g, l) \/ Reads(g, l)
<1>1. /\ Current(g) = Lock(l) <=> Waits(Lock(l), todo[g])
      /\ Current(g) = RLock(l) <=> Waits(RLock(l), todo[g])
  BY DEF Current, Idle, Waits, Lock, RLock
<1>2. Holds(g)[l] = ModeOf(g, writer, readers, todo[g], l)
  BY DEF Holds, HoldsOf
<1>3. QED
  BY <1>1, <1>2 DEF ModeOf, Writes, Reads

-----------------------------------------------------------------------------
(* Steps on a lock.                                                        *)

\* The goroutines by name; nobody is none of them.
LEMMA RoutinesAre ==
  /\ Routines \subseteq AllRoutines /\ Nobody \notin AllRoutines
  /\ "ui" \in AllRoutines /\ "escape" \in AllRoutines /\ "device" \in AllRoutines
  BY RoutinesAssumption DEF AllRoutines, Nobody

\* The operations on the locks differ, and differ from the steps.
LEMMA LocksApart ==
  ASSUME NEW k \in Locks, NEW l \in Locks
  PROVE  /\ Lock(k) = Lock(l) => k = l
         /\ RLock(k) = RLock(l) => k = l
         /\ Lock(k) \notin {RLock(l), Unlock(l), RUnlock(l)}
         /\ RLock(k) \notin {Lock(l), Unlock(l), RUnlock(l)}
         /\ \A step : Do(step) \notin {Lock(l), RLock(l), Unlock(l), RUnlock(l)}
         /\ {Line, RefreshMessage} \cap {Lock(l), RLock(l), Unlock(l), RUnlock(l)} = {}
  BY DEF Lock, RLock, Unlock, RUnlock, Do, Line, RefreshMessage

\* Who is at another instruction than the lock's acquisition holds what it was given.
LEMMA NotWaiting ==
  ASSUME LockInv, NEW g \in AllRoutines, NEW l \in Locks,
         Current(g) # Lock(l), Current(g) # RLock(l)
  PROVE  Raw(g, writer, readers, l) = Holds(g)[l]
  BY HoldsMeans DEF Raw, Holds, HoldsOf, ModeOf

\* An instruction on a lock that takes effect: what the mover holds becomes what the
\* assertion after it says, and nobody else's locks change.
LockOperations(l) == {Lock(l), RLock(l), Unlock(l), RUnlock(l)}

\* The step of a goroutine that takes or releases a lock.
LEMMA LockTaken ==
  ASSUME LockInv, NEW g \in Routines, NEW l \in Locks, NEW x \in LockOperations(l),
         Current(g) = x, Advance(g), UNCHANGED <<controlVars, queue, stalled, setting>>,
         writer' \in [Locks -> Routines \cup {Nobody}],
         readers' \in [Locks -> SUBSET Routines], pending' \in [Locks -> SUBSET Routines],
         \A k \in Locks : k # l => writer'[k] = writer[k] /\ readers'[k] = readers[k],
         Raw(g, writer', readers', l) = HoldsAfter(x, StateOf(g))[l],
         \A h \in AllRoutines : h # g =>
           ModeOf(h, writer', readers', todo[h], l) = ModeOf(h, writer, readers, todo[h], l),
         x \in {Lock("cm"), RLock("cm")} => ~(local /\ target)
  PROVE  /\ TypeOK' /\ Carried'
         /\ Holds(g)' = HoldsAfter(x, StateOf(g))
         /\ \A h \in AllRoutines : h # g => Holds(h)' = Holds(h) /\ todo'[h] = todo[h]
<1>. DEFINE A == After(x, StateOf(g))
<1>1. g \in AllRoutines /\ x[1] # "idle"
  BY RoutinesAre DEF LockOperations, Lock, RLock, Unlock, RUnlock
<1>2. /\ A \in Assertions /\ Proves(A, Rest(g), Done) /\ Rest(g) \in Seq(Instructions)
      /\ Allowed(x, StateOf(g)) /\ todo[g] # <<>>
  BY <1>1, AtWork
<1>3. todo' = [todo EXCEPT ![g] = Rest(g)] /\ todo \in [AllRoutines -> Seq(Instructions)]
  BY DEF Advance, LockInv, TypeOK
<1>4. todo'[g] = Rest(g) /\ \A h \in AllRoutines : h # g => todo'[h] = todo[h]
  BY <1>1, <1>3
<1>5. TypeOK'
  <2>1. todo' \in [AllRoutines -> Seq(Instructions)]
    BY <1>2, <1>3
  <2>2. QED
    BY <2>1 DEF LockInv, TypeOK, controlVars
<1>6. ASSUME NEW h \in AllRoutines, h # g
      PROVE  Holds(h)' = Holds(h)
  <2>1. ASSUME NEW k \in Locks
        PROVE  ModeOf(h, writer', readers', todo[h], k) = ModeOf(h, writer, readers, todo[h], k)
    <3>1. CASE k = l
      BY <1>6, <3>1
    <3>2. CASE k # l
      BY <3>2 DEF ModeOf
    <3>3. QED
      BY <3>1, <3>2
  <2>2. HoldsOf(h, writer', readers', todo[h]) = HoldsOf(h, writer, readers, todo[h])
    BY <2>1 DEF HoldsOf
  <2>3. QED
    BY <1>4, <1>6, <2>2 DEF Holds
<1>7. A.holds = HoldsAfter(x, StateOf(g)) /\ A.knows = KnowsAfter(x, StateOf(g))
  BY DEF After
<1>8. StateOf(g).holds = Holds(g) /\ StateOf(g).knows = Knows(g) /\ Holds(g) \in [Locks -> Modes]
  BY StateOfType DEF StateOf
<1>9. ASSUME NEW k \in Locks, k # l
      PROVE  HoldsAfter(x, StateOf(g))[k] = Holds(g)[k]
  BY <1>8, <1>9, AfterLock DEF LockOperations
<1>10. ASSUME NEW k \in Locks
       PROVE  Raw(g, writer', readers', k) = A.holds[k]
  <2>1. CASE k = l
    BY <1>7, <2>1
  <2>2. CASE k # l
    <3>1. Current(g) # Lock(k) /\ Current(g) # RLock(k)
      BY <2>2, LocksApart DEF LockOperations
    <3>2. Raw(g, writer, readers, k) = Holds(g)[k]
      BY <1>1, <3>1, NotWaiting
    <3>3. Raw(g, writer', readers', k) = Raw(g, writer, readers, k)
      BY <2>2 DEF Raw
    <3>4. QED
      BY <1>7, <1>9, <2>2, <3>2, <3>3
  <2>3. QED
    BY <2>1, <2>2
<1>11. A.knows \subseteq FactsOf(g, A.holds, local', target', todo'["escape"])
  <2>1. ASSUME NEW f \in Knows(g), f = "quiet"
        PROVE  IsFact(f, g, A.holds, local', target', todo'["escape"])
    <3>1. g = "device" /\ todo["escape"] = <<>>
      BY <2>1 DEF Knows, FactsOf, IsFact
    <3>2. todo'["escape"] = <<>>
      BY <1>4, <3>1, RoutinesAre
    <3>3. QED
      BY <2>1, <3>1, <3>2 DEF IsFact
  <2>2. CASE l = "cm" /\ x \in {Lock(l), RLock(l)}
    <3>1. A.knows = Knows(g) \cup {"clean"} /\ A.holds["cm"] # "no"
      BY <1>7, <1>8, <2>2, AfterLock
    <3>2. \A k \in Locks : Holds(g)[k] = "no"
      BY <1>2, <1>8, <2>2 DEF Allowed, Ordered, Lock, RLock
    <3>3. \A f \in Knows(g) : f = "quiet"
      BY <3>2, LocksDiffer DEF Knows, FactsOf, IsFact
    <3>4. ~(local' /\ target')
      BY <2>2 DEF controlVars
    <3>5. IsFact("clean", g, A.holds, local', target', todo'["escape"])
      BY <3>1, <3>4 DEF IsFact
    <3>6. QED
      BY <3>1, <3>3, <3>5, <2>1 DEF FactsOf, Facts
  <2>3. CASE l = "cm" /\ x \in {Unlock(l), RUnlock(l)}
    <3>1. A.knows = Knows(g) \cap {"quiet"}
      BY <1>7, <1>8, <2>3, AfterLock
    <3>2. QED
      BY <3>1, <2>1 DEF FactsOf, Facts
  <2>4. CASE l # "cm"
    <3>1. A.knows = Knows(g)
      BY <1>7, <1>8, <2>4, AfterLock DEF LockOperations
    <3>2. A.holds["cm"] = Holds(g)["cm"]
      BY <1>7, <1>9, <2>4, LocksDiffer
    <3>3. ASSUME NEW f \in Knows(g), f # "quiet"
          PROVE  IsFact(f, g, A.holds, local', target', todo'["escape"])
      BY <3>2, <3>3 DEF Knows, FactsOf, IsFact, controlVars
    <3>4. QED
      BY <3>1, <3>3, <2>1 DEF FactsOf, Knows
  <2>5. QED
    BY <2>2, <2>3, <2>4 DEF LockOperations
<1>12. Moved(g, A)
  BY <1>2, <1>4, <1>10, <1>11 DEF Moved
<1>13. ASSUME NEW h \in AllRoutines, h # g
       PROVE  Undisturbed(h)
  <2>1. h = "device" /\ todo["escape"] = <<>> => todo'["escape"] = <<>>
    BY <1>2, <1>4, RoutinesAre
  <2>2. QED
    BY <1>4, <1>6, <1>13, <2>1 DEF Undisturbed, controlVars
<1>14. Carried'
  <2>. HIDE DEF A
  <2>1. QED
    BY <1>12, <1>13, CarriedOn DEF LockInv
<1>15. Holds(g)' = HoldsAfter(x, StateOf(g))
  <2>1. HoldsOf(g, writer', readers', todo'[g]) = A.holds
    <3>. HIDE DEF A
    <3>1. QED
      BY <1>2, <1>4, <1>10, Steady
  <2>2. QED
    BY <1>7, <2>1 DEF Holds
<1>16. QED
  BY <1>4, <1>5, <1>6, <1>14, <1>15

\* Nobody's work and locks change when a goroutine only asks for a lock.
LEMMA AskingKeeps ==
  ASSUME LockInv, UNCHANGED <<todo, controlVars, queue, stalled, setting>>,
         writer' \in [Locks -> Routines \cup {Nobody}],
         readers' = readers, pending' \in [Locks -> SUBSET Routines],
         \A h \in AllRoutines : Holds(h)' = Holds(h)
  PROVE  TypeOK' /\ Carried' /\ Owned'
<1>1. TypeOK'
  BY DEF LockInv, TypeOK, controlVars
<1>2. \A h \in AllRoutines : Undisturbed(h)
  BY DEF Undisturbed, controlVars
<1>3. Carried'
  BY <1>2, CarriedOn DEF LockInv
<1>4. Owned'
  BY RoutinesAre DEF LockInv, Owned, controlVars
<1>5. QED
  BY <1>1, <1>3, <1>4

\* A writer announces itself.
LEMMA AnnounceKeeps ==
  ASSUME LockInv, NEW g \in Routines, NEW l \in Locks, Announce(g, l), UNCHANGED setting
  PROVE  LockInv'
<1>1. /\ Current(g) = Lock(l) /\ writer[l] = Nobody /\ g \in AllRoutines
      /\ writer' = [writer EXCEPT ![l] = g] /\ readers' = readers /\ pending' = pending
      /\ UNCHANGED <<todo, controlVars, queue, stalled, setting>>
  BY RoutinesAre DEF Announce
<1>2. writer \in [Locks -> Routines \cup {Nobody}] /\ pending \in [Locks -> SUBSET Routines]
  BY DEF LockInv, TypeOK
<1>3. Waits(Lock(l), todo[g])
  BY <1>1, HoldsMeans
<1>4. ASSUME NEW h \in AllRoutines
      PROVE  Holds(h)' = Holds(h)
  <2>1. ASSUME NEW k \in Locks
        PROVE  ModeOf(h, writer', readers', todo[h], k) = ModeOf(h, writer, readers, todo[h], k)
    BY <1>1, <1>2, <1>3, RoutinesAre DEF ModeOf
  <2>2. QED
    BY <1>1, <2>1 DEF Holds, HoldsOf
<1>5. TypeOK' /\ Carried' /\ Owned'
  BY <1>1, <1>2, <1>4, AskingKeeps
<1>6. Exclusive'
  BY <1>1, <1>2, <1>4, RoutinesAre DEF LockInv, Exclusive
<1>7. QED
  BY <1>5, <1>6 DEF LockInv

\* A reader waits for a writer that has announced itself.
LEMMA WaitToReadKeeps ==
  ASSUME LockInv, NEW g \in Routines, NEW l \in Locks, WaitToRead(g, l), UNCHANGED setting
  PROVE  LockInv'
<1>1. /\ Current(g) = RLock(l) /\ writer[l] # Nobody /\ g \notin readers[l]
      /\ g \in AllRoutines
      /\ pending' = [pending EXCEPT ![l] = @ \cup {g}] /\ readers' = readers /\ writer' = writer
      /\ UNCHANGED <<todo, controlVars, queue, stalled, setting>>
  BY RoutinesAre DEF WaitToRead
<1>2. writer \in [Locks -> Routines \cup {Nobody}] /\ pending \in [Locks -> SUBSET Routines]
  BY DEF LockInv, TypeOK
<1>3. \A h \in AllRoutines : Holds(h)' = Holds(h)
  BY <1>1 DEF Holds
<1>4. pending' \in [Locks -> SUBSET Routines]
  BY <1>1, <1>2
<1>5. TypeOK' /\ Carried' /\ Owned'
  BY <1>1, <1>2, <1>3, <1>4, AskingKeeps
<1>6. Waits(RLock(l), todo[g])
  BY <1>1, HoldsMeans
<1>7. ASSUME NEW h \in AllRoutines, NEW k \in Locks, h \in pending'[k]
      PROVE  Waits(RLock(k), todo'[h]) /\ h \notin readers'[k] /\ writer'[k] # Nobody
  <2>1. CASE h \in pending[k]
    BY <1>1, <2>1 DEF LockInv, Exclusive
  <2>2. CASE h \notin pending[k]
    <3>1. k = l /\ h = g
      BY <1>1, <1>2, <1>7, <2>2
    <3>2. QED
      BY <1>1, <1>6, <3>1
  <2>3. QED
    BY <2>1, <2>2
<1>8. Exclusive'
  BY <1>1, <1>3, <1>7 DEF LockInv, Exclusive
<1>9. QED
  BY <1>5, <1>8 DEF LockInv

\* The owner of the control state has cm: nobody else finds it in between.
LEMMA CleanWhenFree ==
  ASSUME LockInv, \A h \in Routines : Holds(h)["cm"] # "write"
  PROVE  ~(local /\ target)
  BY DEF LockInv, Owned

\* Whoever operates on the manager keeps cm, or leaves no orphaned grab behind.
LEMMA OwnedFollows ==
  ASSUME LockInv, UNCHANGED controlVars, NEW g \in Routines,
         \A h \in AllRoutines : h # g => Holds(h)' = Holds(h),
         Holds(g)["cm"] = "write" => Holds(g)'["cm"] = "write" \/ ~(local /\ target)
  PROVE  Owned'
  BY RoutinesAre DEF LockInv, Owned, controlVars

\* The announced writer gets the lock when the readers have left.
LEMMA AcquireKeeps ==
  ASSUME LockInv, NEW g \in Routines, NEW l \in Locks, Acquire(g, l), UNCHANGED setting
  PROVE  LockInv'
<1>. DEFINE x == Lock(l)
<1>1. /\ Current(g) = x /\ writer[l] = g /\ readers[l] = {} /\ g \in AllRoutines
      /\ Advance(g) /\ UNCHANGED <<lockVars, controlVars, queue, stalled, setting>>
      /\ writer' = writer /\ readers' = readers /\ pending' = pending
  BY RoutinesAre DEF Acquire, lockVars
<1>2. /\ writer \in [Locks -> Routines \cup {Nobody}] /\ pending \in [Locks -> SUBSET Routines]
      /\ readers \in [Locks -> SUBSET Routines]
  BY DEF LockInv, TypeOK
<1>3. /\ StateOf(g).holds = Holds(g) /\ Holds(g) \in [Locks -> Modes]
      /\ HoldsAfter(x, StateOf(g)) = [Holds(g) EXCEPT ![l] = "write"]
  BY StateOfType, AfterLock DEF StateOf
<1>4. Raw(g, writer', readers', l) = HoldsAfter(x, StateOf(g))[l]
  BY <1>1, <1>3 DEF Raw
<1>5. ASSUME x \in {Lock("cm"), RLock("cm")}
      PROVE  ~(local /\ target)
  <2>1. l = "cm"
    BY <1>5, LocksApart, LocksDiffer
  <2>2. Waits(Lock(l), todo[g])
    BY <1>1, HoldsMeans
  <2>3. ASSUME NEW h \in Routines
        PROVE  Holds(h)["cm"] # "write"
    BY <1>1, <2>1, <2>2, LocksDiffer DEF Holds, HoldsOf, ModeOf
  <2>4. QED
    BY <2>3, CleanWhenFree
<1>6. x \in LockOperations(l)
  BY DEF LockOperations
<1>. HIDE DEF x
<1>7. /\ TypeOK' /\ Carried'
      /\ Holds(g)' = HoldsAfter(x, StateOf(g))
      /\ \A h \in AllRoutines : h # g => Holds(h)' = Holds(h) /\ todo'[h] = todo[h]
  BY <1>1, <1>2, <1>4, <1>5, <1>6, LockTaken
<1>8. Owned'
  <2>1. Holds(g)["cm"] = "write" => Holds(g)'["cm"] = "write"
    BY <1>3, <1>7, LocksDiffer
  <2>2. QED
    BY <1>1, <1>7, <2>1, OwnedFollows
<1>9. ASSUME NEW h \in AllRoutines, NEW k \in Locks, Holds(h)'[k] = "write"
      PROVE  readers'[k] = {}
  <2>1. CASE h = g /\ k = l
    BY <1>1, <2>1
  <2>2. CASE ~(h = g /\ k = l)
    BY <1>1, <1>3, <1>7, <1>9, <2>2 DEF LockInv, Exclusive
  <2>3. QED
    BY <2>1, <2>2
<1>10. ASSUME NEW h \in AllRoutines, NEW k \in Locks, h \in pending'[k]
       PROVE  Waits(RLock(k), todo'[h]) /\ h \notin readers'[k] /\ writer'[k] # Nobody
  <2>1. Waits(RLock(k), todo[h]) /\ h \notin readers[k] /\ writer[k] # Nobody
    BY <1>1, <1>10 DEF LockInv, Exclusive
  <2>2. h # g
    BY <1>1, <2>1, HoldsMeans, LocksApart DEF x
  <2>3. QED
    BY <1>1, <1>7, <2>1, <2>2
<1>11. QED
  BY <1>7, <1>8, <1>9, <1>10 DEF LockInv, Exclusive

\* A reader gets the lock, or finds that it was given it when the writer left.
LEMMA ReadAcquireKeeps ==
  ASSUME LockInv, NEW g \in Routines, NEW l \in Locks, ReadAcquire(g, l), UNCHANGED setting
  PROVE  LockInv'
<1>. DEFINE x == RLock(l)
<1>1. /\ Current(g) = x /\ g \in AllRoutines /\ Advance(g)
      /\ writer[l] = Nobody \/ g \in readers[l]
      /\ UNCHANGED <<controlVars, queue, stalled, setting>>
      /\ writer' = writer /\ readers' = [readers EXCEPT ![l] = @ \cup {g}] /\ pending' = pending
  BY RoutinesAre DEF ReadAcquire
<1>2. /\ writer \in [Locks -> Routines \cup {Nobody}] /\ pending \in [Locks -> SUBSET Routines]
      /\ readers \in [Locks -> SUBSET Routines]
  BY DEF LockInv, TypeOK
<1>3. /\ StateOf(g).holds = Holds(g) /\ Holds(g) \in [Locks -> Modes]
      /\ HoldsAfter(x, StateOf(g)) = [Holds(g) EXCEPT ![l] = "read"]
  BY StateOfType, AfterLock DEF StateOf
<1>4. Holds(g)[l] = "no"
  <2>1. x[1] = "rlock" /\ x[2] = l
    BY DEF RLock
  <2>2. Allowed(x, StateOf(g))
    <3>. HIDE DEF x
    <3>1. QED
      BY <1>1, <2>1, AtWork
  <2>3. Ordered(StateOf(g), l)
    BY <2>1, <2>2 DEF Allowed
  <2>4. QED
    BY <1>3, <2>3 DEF Ordered
<1>5. writer[l] # g
  <2>1. ~Waits(Lock(l), todo[g])
    BY <1>1, HoldsMeans, LocksApart
  <2>2. QED
    BY <1>4, <2>1 DEF Holds, HoldsOf, ModeOf
<1>6. Raw(g, writer', readers', l) = HoldsAfter(x, StateOf(g))[l]
  BY <1>1, <1>2, <1>3, <1>5 DEF Raw
<1>7. ASSUME NEW h \in AllRoutines
      PROVE  Holds(h)[l] # "write"
  <2>1. CASE writer[l] = Nobody
    BY <2>1, RoutinesAre DEF Holds, HoldsOf, ModeOf
  <2>2. CASE g \in readers[l]
    BY <2>2 DEF LockInv, Exclusive
  <2>3. QED
    BY <1>1, <2>1, <2>2
<1>8. x \in {Lock("cm"), RLock("cm")} => ~(local /\ target)
  <2>1. SUFFICES ASSUME x \in {Lock("cm"), RLock("cm")} PROVE ~(local /\ target)
    OBVIOUS
  <2>2. l = "cm"
    BY <2>1, LocksApart, LocksDiffer
  <2>3. QED
    BY <1>7, <2>2, CleanWhenFree, RoutinesAre
<1>9. x \in LockOperations(l)
  BY DEF LockOperations
<1>10. \A h \in AllRoutines : h # g =>
         ModeOf(h, writer', readers', todo[h], l) = ModeOf(h, writer, readers, todo[h], l)
  BY <1>1, <1>2 DEF ModeOf
<1>11. readers' \in [Locks -> SUBSET Routines]
  BY <1>1, <1>2
<1>12. \A k \in Locks : k # l => writer'[k] = writer[k] /\ readers'[k] = readers[k]
  BY <1>1, <1>2
<1>. HIDE DEF x
<1>13. /\ TypeOK' /\ Carried'
       /\ Holds(g)' = HoldsAfter(x, StateOf(g))
       /\ \A h \in AllRoutines : h # g => Holds(h)' = Holds(h) /\ todo'[h] = todo[h]
  BY <1>1, <1>2, <1>6, <1>8, <1>9, <1>10, <1>11, <1>12, LockTaken
<1>14. Owned'
  <2>1. Holds(g)["cm"] = "write" => Holds(g)'["cm"] = "write"
    BY <1>3, <1>4, <1>13, LocksDiffer
  <2>2. QED
    BY <1>1, <1>13, <2>1, OwnedFollows
<1>15. ASSUME NEW h \in AllRoutines, NEW k \in Locks, Holds(h)'[k] = "write"
       PROVE  readers'[k] = {}
  <2>1. Holds(h)[k] = "write"
    <3>1. CASE h = g
      BY <1>3, <1>13, <1>15, <3>1
    <3>2. CASE h # g
      BY <1>13, <1>15, <3>2
    <3>3. QED
      BY <3>1, <3>2
  <2>2. k # l /\ readers[k] = {}
    BY <1>7, <2>1 DEF LockInv, Exclusive
  <2>3. QED
    BY <1>12, <2>2
<1>16. ASSUME NEW h \in AllRoutines, NEW k \in Locks, h \in pending'[k]
       PROVE  Waits(RLock(k), todo'[h]) /\ h \notin readers'[k] /\ writer'[k] # Nobody
  <2>1. Waits(RLock(k), todo[h]) /\ h \notin readers[k] /\ writer[k] # Nobody
    BY <1>1, <1>16 DEF LockInv, Exclusive
  <2>2. h # g
    <3>1. SUFFICES ASSUME h = g PROVE FALSE
      OBVIOUS
    <3>2. k = l
      BY <1>1, <2>1, <3>1, HoldsMeans, LocksApart DEF x
    <3>3. QED
      BY <1>1, <2>1, <3>1, <3>2
  <2>3. QED
    BY <1>1, <1>2, <1>13, <2>1, <2>2
<1>17. QED
  BY <1>13, <1>14, <1>15, <1>16 DEF LockInv, Exclusive

\* The writer leaves and hands the lock to the readers that wait.
LEMMA ReleaseLockKeeps ==
  ASSUME LockInv, NEW g \in Routines, NEW l \in Locks, ReleaseLock(g, l), UNCHANGED setting
  PROVE  LockInv'
<1>. DEFINE x == Unlock(l)
<1>1. /\ Current(g) = x /\ g \in AllRoutines /\ Advance(g)
      /\ UNCHANGED <<controlVars, queue, stalled, setting>>
      /\ writer' = [writer EXCEPT ![l] = Nobody] /\ readers' = [readers EXCEPT ![l] = pending[l]]
      /\ pending' = [pending EXCEPT ![l] = {}]
  BY RoutinesAre DEF ReleaseLock
<1>2. /\ writer \in [Locks -> Routines \cup {Nobody}] /\ pending \in [Locks -> SUBSET Routines]
      /\ readers \in [Locks -> SUBSET Routines]
  BY DEF LockInv, TypeOK
<1>3. /\ StateOf(g).holds = Holds(g) /\ Holds(g) \in [Locks -> Modes]
      /\ StateOf(g).knows = Knows(g)
      /\ HoldsAfter(x, StateOf(g)) = [Holds(g) EXCEPT ![l] = "no"]
  BY StateOfType, AfterLock DEF StateOf
<1>4. Allowed(x, StateOf(g))
  BY <1>1, AtWork, SMTT(30) DEF Unlock
<1>5. Holds(g)[l] = "write" /\ (l = "cm" => "clean" \in Knows(g))
  BY <1>3, <1>4 DEF Allowed, Unlock
<1>6. writer[l] = g /\ readers[l] = {}
  <2>1. writer[l] = g
    BY <1>5 DEF Holds, HoldsOf, ModeOf
  <2>2. QED
    BY <1>1, <1>5, <2>1 DEF LockInv, Exclusive
<1>7. \A h \in pending[l] : Waits(RLock(l), todo[h])
  BY <1>2, RoutinesAre DEF LockInv, Exclusive
<1>8. g \notin pending[l]
  BY <1>1, <1>7, HoldsMeans, LocksApart
<1>9. Raw(g, writer', readers', l) = HoldsAfter(x, StateOf(g))[l]
  BY <1>1, <1>2, <1>3, <1>8, RoutinesAre DEF Raw
<1>10. x \in {Lock("cm"), RLock("cm")} => ~(local /\ target)
  BY LocksApart, LocksDiffer
<1>11. x \in LockOperations(l)
  BY DEF LockOperations
<1>12. \A h \in AllRoutines : h # g =>
         ModeOf(h, writer', readers', todo[h], l) = ModeOf(h, writer, readers, todo[h], l)
  BY <1>1, <1>2, <1>6, <1>7, RoutinesAre DEF ModeOf
<1>13. /\ writer' \in [Locks -> Routines \cup {Nobody}] /\ readers' \in [Locks -> SUBSET Routines]
       /\ pending' \in [Locks -> SUBSET Routines]
       /\ \A k \in Locks : k # l =>
            writer'[k] = writer[k] /\ readers'[k] = readers[k] /\ pending'[k] = pending[k]
  BY <1>1, <1>2
<1>. HIDE DEF x
<1>14. /\ TypeOK' /\ Carried'
       /\ Holds(g)' = HoldsAfter(x, StateOf(g))
       /\ \A h \in AllRoutines : h # g => Holds(h)' = Holds(h) /\ todo'[h] = todo[h]
  BY <1>1, <1>9, <1>10, <1>11, <1>12, <1>13, LockTaken, ZenonT(40)
<1>15. Owned'
  <2>1. CASE l = "cm"
    <3>1. ~(local /\ target)
      BY <1>5, <2>1 DEF Knows, FactsOf, IsFact
    <3>2. QED
      BY <3>1, <1>1, <1>14, OwnedFollows
  <2>2. CASE l # "cm"
    <3>1. Holds(g)'["cm"] = Holds(g)["cm"]
      BY <1>3, <1>14, <2>2, LocksDiffer
    <3>2. QED
      BY <3>1, <1>1, <1>14, OwnedFollows
  <2>3. QED
    BY <2>1, <2>2
<1>16. ASSUME NEW h \in AllRoutines, NEW k \in Locks, Holds(h)'[k] = "write"
       PROVE  readers'[k] = {}
  <2>1. Holds(h)[k] = "write" /\ k # l
    <3>1. CASE h = g
      BY <1>3, <1>14, <1>16, <3>1
    <3>2. CASE h # g
      <4>1. Holds(h)[k] = "write"
        BY <1>14, <1>16, <3>2
      <4>2. Holds(h)[l] = "no"
        BY <1>1, <1>5, <3>2, WriterAlone
      <4>3. QED
        BY <4>1, <4>2
    <3>3. QED
      BY <3>1, <3>2
  <2>2. readers[k] = {}
    BY <2>1 DEF LockInv, Exclusive
  <2>3. QED
    BY <1>13, <2>1, <2>2
<1>17. ASSUME NEW h \in AllRoutines, NEW k \in Locks, h \in pending'[k]
       PROVE  Waits(RLock(k), todo'[h]) /\ h \notin readers'[k] /\ writer'[k] # Nobody
  <2>1. k # l
    BY <1>1, <1>2, <1>17
  <2>2. Waits(RLock(k), todo[h]) /\ h \notin readers[k] /\ writer[k] # Nobody
    BY <1>13, <1>17, <2>1 DEF LockInv, Exclusive
  <2>3. h # g
    BY <1>1, <2>2, HoldsMeans, LocksApart, Zenon DEF x
  <2>4. QED
    BY <1>13, <1>14, <2>1, <2>2, <2>3
<1>18. QED
  BY <1>14, <1>15, <1>16, <1>17 DEF LockInv, Exclusive

\* A reader leaves.
LEMMA ReadReleaseKeeps ==
  ASSUME LockInv, NEW g \in Routines, NEW l \in Locks, ReadRelease(g, l), UNCHANGED setting
  PROVE  LockInv'
<1>. DEFINE x == RUnlock(l)
<1>1. /\ Current(g) = x /\ g \in AllRoutines /\ Advance(g)
      /\ UNCHANGED <<controlVars, queue, stalled, setting>>
      /\ writer' = writer /\ readers' = [readers EXCEPT ![l] = @ \ {g}] /\ pending' = pending
  BY RoutinesAre DEF ReadRelease
<1>2. /\ writer \in [Locks -> Routines \cup {Nobody}] /\ pending \in [Locks -> SUBSET Routines]
      /\ readers \in [Locks -> SUBSET Routines]
  BY DEF LockInv, TypeOK
<1>3. /\ StateOf(g).holds = Holds(g) /\ Holds(g) \in [Locks -> Modes]
      /\ HoldsAfter(x, StateOf(g)) = [Holds(g) EXCEPT ![l] = "no"]
  BY StateOfType, AfterLock DEF StateOf
<1>4. Allowed(x, StateOf(g))
  BY <1>1, AtWork DEF RUnlock
<1>5. Holds(g)[l] = "read"
  BY <1>3, <1>4 DEF Allowed, RUnlock
<1>6. writer[l] # g
  <2>1. ~Waits(Lock(l), todo[g])
    BY <1>1, HoldsMeans, LocksApart
  <2>2. QED
    BY <1>5, <2>1 DEF Holds, HoldsOf, ModeOf
<1>7. Raw(g, writer', readers', l) = HoldsAfter(x, StateOf(g))[l]
  BY <1>1, <1>2, <1>3, <1>6 DEF Raw
<1>8. x \in {Lock("cm"), RLock("cm")} => ~(local /\ target)
  BY LocksApart, LocksDiffer
<1>9. x \in LockOperations(l)
  BY DEF LockOperations
<1>10. \A h \in AllRoutines : h # g =>
         ModeOf(h, writer', readers', todo[h], l) = ModeOf(h, writer, readers, todo[h], l)
  BY <1>1, <1>2 DEF ModeOf
<1>11. readers' \in [Locks -> SUBSET Routines] /\ \A k \in Locks : readers'[k] \subseteq readers[k]
  BY <1>1, <1>2
<1>12. \A k \in Locks : k # l => writer'[k] = writer[k] /\ readers'[k] = readers[k]
  BY <1>1, <1>2
<1>. HIDE DEF x
<1>13. /\ TypeOK' /\ Carried'
       /\ Holds(g)' = HoldsAfter(x, StateOf(g))
       /\ \A h \in AllRoutines : h # g => Holds(h)' = Holds(h) /\ todo'[h] = todo[h]
  BY <1>1, <1>2, <1>7, <1>8, <1>9, <1>10, <1>11, <1>12, LockTaken
<1>14. Owned'
  <2>1. Holds(g)["cm"] = "write" => Holds(g)'["cm"] = "write"
    BY <1>3, <1>5, <1>13, LocksDiffer
  <2>2. QED
    BY <1>1, <1>13, <2>1, OwnedFollows
<1>15. ASSUME NEW h \in AllRoutines, NEW k \in Locks, Holds(h)'[k] = "write"
       PROVE  readers'[k] = {}
  <2>1. Holds(h)[k] = "write"
    <3>1. CASE h = g
      BY <1>3, <1>13, <1>15, <3>1
    <3>2. CASE h # g
      BY <1>13, <1>15, <3>2
    <3>3. QED
      BY <3>1, <3>2
  <2>2. readers[k] = {}
    BY <2>1 DEF LockInv, Exclusive
  <2>3. QED
    BY <1>11, <2>2
<1>16. ASSUME NEW h \in AllRoutines, NEW k \in Locks, h \in pending'[k]
       PROVE  Waits(RLock(k), todo'[h]) /\ h \notin readers'[k] /\ writer'[k] # Nobody
  <2>1. Waits(RLock(k), todo[h]) /\ h \notin readers[k] /\ writer[k] # Nobody
    BY <1>1, <1>16 DEF LockInv, Exclusive
  <2>2. h # g
    BY <1>1, <2>1, HoldsMeans, LocksApart DEF x
  <2>3. QED
    BY <1>1, <1>11, <1>13, <2>1, <2>2
<1>17. QED
  BY <1>13, <1>14, <1>15, <1>16 DEF LockInv, Exclusive

-----------------------------------------------------------------------------
(* Steps that take, release or wait for no lock.                           *)

\* A goroutine goes on from an assertion with the locks it has.
Continues(h, A) ==
  /\ A \in Assertions /\ A.holds = Holds(h) /\ Proves(A, todo'[h], Done)
  /\ \A l \in Locks : Current(h) # Lock(l) /\ Current(h) # RLock(l)
  /\ A.knows \subseteq FactsOf(h, Holds(h), local', target', todo'["escape"])

\* A step that changes no lock keeps the invariant if everyone goes on or is left alone.
LEMMA WorkDone ==
  ASSUME LockInv, UNCHANGED <<lockVars, setting>>,
         \A b \in {registered', local', target', leftover', armed', stalled'} : b \in BOOLEAN,
         queue' \in 0..QueueSize, todo' \in [AllRoutines -> Seq(Instructions)],
         \A h \in AllRoutines : Undisturbed(h) \/ \E A : Continues(h, A),
         local' /\ target' =>
           (local /\ target) \/ \E g \in Routines : Holds(g)["cm"] = "write"
  PROVE  LockInv'
<1>1. writer' = writer /\ readers' = readers /\ pending' = pending
  BY DEF lockVars
<1>2. ASSUME NEW h \in AllRoutines, NEW A, Continues(h, A)
      PROVE  Moved(h, A) /\ Holds(h)' = Holds(h)
  <2>1. \A l \in Locks : Raw(h, writer', readers', l) = A.holds[l]
    BY <1>1, <1>2, NotWaiting DEF Continues
  <2>2. Moved(h, A)
    BY <1>2, <2>1 DEF Continues, Moved
  <2>3. HoldsOf(h, writer', readers', todo'[h]) = A.holds
    BY <1>2, <2>1, Steady DEF Continues
  <2>4. QED
    BY <1>2, <2>2, <2>3 DEF Holds, Continues
<1>3. \A h \in AllRoutines : Undisturbed(h) \/ \E A : Moved(h, A)
  BY <1>2
<1>4. Carried'
  BY <1>3, CarriedOn DEF LockInv
<1>5. \A h \in AllRoutines : Holds(h)' = Holds(h)
  BY <1>2 DEF Undisturbed
<1>6. TypeOK'
  BY <1>1 DEF LockInv, TypeOK
<1>7. ASSUME NEW h \in AllRoutines, NEW l \in Locks, h \in pending'[l]
      PROVE  Waits(RLock(l), todo'[h]) /\ h \notin readers'[l] /\ writer'[l] # Nobody
  <2>1. Waits(RLock(l), todo[h]) /\ h \notin readers[l] /\ writer[l] # Nobody
    BY <1>1, <1>7 DEF LockInv, Exclusive
  <2>2. Current(h) = RLock(l)
    BY <2>1, HoldsMeans
  <2>3. Undisturbed(h)
    BY <2>2 DEF Continues
  <2>4. QED
    BY <1>1, <2>1, <2>3 DEF Undisturbed
<1>8. Exclusive'
  BY <1>1, <1>5, <1>7 DEF LockInv, Exclusive
<1>9. Owned'
  BY <1>5, RoutinesAre DEF LockInv, Owned
<1>10. QED
  BY <1>4, <1>6, <1>8, <1>9 DEF LockInv

\* The goroutines that do not take part in a step.
LEMMA Bystander ==
  ASSUME LockInv, UNCHANGED lockVars, NEW h \in AllRoutines, todo'[h] = todo[h],
         Holds(h)["cm"] # "no" =>
           (local' => local) /\ (target' => target) /\ (local' /\ target' => local /\ target),
         h = "device" /\ todo["escape"] = <<>> => todo'["escape"] = <<>>
  PROVE  Undisturbed(h)
<1>1. Holds(h)' = Holds(h)
  BY DEF Holds, lockVars
<1>2. QED
  BY <1>1 DEF Undisturbed

\* What a goroutine knows is still the case after a step that leaves control alone.
LEMMA FactsStay ==
  ASSUME LockInv, UNCHANGED controlVars, NEW g \in AllRoutines,
         g = "device" /\ todo["escape"] = <<>> => todo'["escape"] = <<>>
  PROVE  Knows(g) \subseteq FactsOf(g, Holds(g), local', target', todo'["escape"])
  BY DEF Knows, FactsOf, IsFact, controlVars

\* Who is idle holds nothing.
LEMMA IdleHoldsNothing ==
  ASSUME LockInv, NEW g \in AllRoutines, Idle(g)
  PROVE  /\ Holds(g) = NoLocks
         /\ \A l \in Locks : Current(g) # Lock(l) /\ Current(g) # RLock(l)
<1>1. Proves(StateOf(g), <<>>, Done)
  BY DEF LockInv, Carried, Idle
<1>2. Holds(g) = NoLocks
  BY <1>1, ProvesEnd DEF Weaker, StateOf, Done
<1>3. QED
  BY <1>2 DEF Current, Lock, RLock

\* The type invariant, by variable.
LEMMA Types ==
  ASSUME LockInv
  PROVE  /\ todo \in [AllRoutines -> Seq(Instructions)]
         /\ registered \in BOOLEAN /\ local \in BOOLEAN /\ target \in BOOLEAN
         /\ leftover \in BOOLEAN /\ armed \in BOOLEAN /\ stalled \in BOOLEAN
         /\ queue \in 0..QueueSize
  BY DEF LockInv, TypeOK

\* An idle goroutine begins an operation.
LEMMA BeginKeeps ==
  ASSUME LockInv, NEW g \in AllRoutines, g # "escape", NEW script, Idle(g),
         todo' = [todo EXCEPT ![g] = script],
         UNCHANGED <<lockVars, registered, local, target, leftover, setting>>,
         armed' \in BOOLEAN,
         queue' \in 0..QueueSize, stalled' \in BOOLEAN,
         NEW F \in SUBSET {"quiet"}, F # {} => g = "device" /\ Idle("escape"),
         Proves(No(F), script, Done)
  PROVE  LockInv'
<1>1. /\ todo'[g] = script /\ \A h \in AllRoutines : h # g => todo'[h] = todo[h]
      /\ todo' \in [AllRoutines -> Seq(Instructions)]
  BY Types DEF Proves
<1>2. Holds(g) = NoLocks /\ \A l \in Locks : Current(g) # Lock(l) /\ Current(g) # RLock(l)
  BY IdleHoldsNothing
<1>3. todo'["escape"] = todo["escape"]
  BY <1>1, RoutinesAre
<1>4. F \subseteq FactsOf(g, Holds(g), local', target', todo'["escape"])
  BY <1>3 DEF FactsOf, IsFact, Facts, Idle
<1>5. F \in SUBSET Facts
  BY DEF Facts
<1>6. No(F) \in Assertions /\ No(F).holds = NoLocks /\ No(F).knows = F
  BY <1>5, Contexts DEF No
<1>7. Continues(g, No(F))
  BY <1>1, <1>2, <1>4, <1>6 DEF Continues
<1>8. ASSUME NEW h \in AllRoutines, h # g
      PROVE  Undisturbed(h)
  BY <1>1, <1>3, <1>8, Bystander
<1>9. \A h \in AllRoutines : Undisturbed(h) \/ \E A : Continues(h, A)
  BY <1>7, <1>8
<1>10. /\ \A b \in {registered', local', target', leftover', armed', stalled'} : b \in BOOLEAN
       /\ local' /\ target' => local /\ target
  BY Types
<1>11. QED
  BY <1>1, <1>9, <1>10, WorkDone

\* A goroutine that is at an instruction "do" or "log" goes on.
LEMMA Onward ==
  ASSUME LockInv, NEW g \in AllRoutines, NEW x, Current(g) = x, x[1] \in {"do", "log"}
  PROVE  /\ x \in Instructions /\ Allowed(x, StateOf(g))
         /\ Proves(After(x, StateOf(g)), Rest(g), Done)
         /\ After(x, StateOf(g)) \in Assertions
         /\ \A l \in Locks : Current(g) # Lock(l) /\ Current(g) # RLock(l)
<1>1. x[1] # "idle"
  OBVIOUS
<1>2. \A l \in Locks : x # Lock(l) /\ x # RLock(l)
  BY DEF Lock, RLock
<1>3. QED
  BY <1>1, <1>2, AtWork

\* A line is handed over, or an event is written.
LEMMA AfterPlain ==
  ASSUME NEW A \in Assertions, NEW x \in {Line, RefreshMessage, Do("write"), Do("enqueue")}
  PROVE  After(x, A) = A
<1>1. HoldsAfter(x, A) = A.holds
  BY DEF HoldsAfter, Line, RefreshMessage, Do
<1>2. KnowsAfter(x, A) = A.knows
  BY DEF KnowsAfter, Line, RefreshMessage, Do, Lock, RLock, Unlock, RUnlock
<1>3. QED
  BY <1>1, <1>2 DEF After, Assertions

\* A line is handed to the interface, whose loop may begin a refresh.
LEMMA WriteLogKeeps ==
  ASSUME LockInv, NEW g \in Routines, WriteLog(g), UNCHANGED setting
  PROVE  LockInv'
<1>1. /\ g \in AllRoutines /\ g # "ui" /\ Idle("ui")
      /\ UNCHANGED <<lockVars, controlVars, queue, stalled>>
      /\ Current(g) \in {Line, RefreshMessage}
      /\ todo' = [todo EXCEPT ![g] = Rest(g)]
         \/ todo' = [todo EXCEPT ![g] = Rest(g), !["ui"] = RefreshClientList]
  BY RoutinesAre DEF WriteLog, Advance
<1>2. /\ todo'[g] = Rest(g)
      /\ \A h \in AllRoutines : h # g /\ h # "ui" => todo'[h] = todo[h]
      /\ todo'["ui"] = todo["ui"] \/ todo'["ui"] = RefreshClientList
  BY <1>1, RoutinesAre, Types
<1>. DEFINE A == StateOf(g)
<1>3. A \in Assertions /\ A.holds = Holds(g) /\ A.knows = Knows(g)
  BY StateOfType DEF StateOf
<1>4. /\ Proves(A, Rest(g), Done) /\ todo[g] # <<>>
      /\ \A l \in Locks : Current(g) # Lock(l) /\ Current(g) # RLock(l)
  <2>1. Current(g)[1] \in {"do", "log"}
    BY <1>1 DEF Line, RefreshMessage
  <2>2. After(Current(g), A) = A
    BY <1>1, <1>3, AfterPlain
  <2>3. todo[g] # <<>>
    BY <1>1 DEF Current, Idle, Line, RefreshMessage
  <2>. HIDE DEF A
  <2>4. QED
    BY <1>1, <2>1, <2>2, <2>3, Onward DEF A
<1>5. todo["escape"] = <<>> => todo'["escape"] = <<>>
  BY <1>2, <1>4, RoutinesAre
<1>6. Continues(g, A)
  BY <1>1, <1>2, <1>3, <1>4, <1>5, FactsStay DEF Continues
<1>7. ASSUME NEW h \in AllRoutines, h # g, todo'[h] = todo[h]
      PROVE  Undisturbed(h)
  BY <1>1, <1>5, <1>7, Bystander DEF controlVars
<1>8. todo'["ui"] = RefreshClientList => Continues("ui", Done)
  <2>1. Proves(Done, RefreshClientList, Done) /\ Done.holds = NoLocks /\ Done.knows = {}
    BY ProvesRefresh, DoneIsNo DEF Done
  <2>2. /\ Holds("ui") = NoLocks
        /\ \A l \in Locks : Current("ui") # Lock(l) /\ Current("ui") # RLock(l)
    BY <1>1, RoutinesAre, IdleHoldsNothing
  <2>3. QED
    BY <2>1, <2>2, DoneIsNo DEF Continues
<1>9. \A h \in AllRoutines : Undisturbed(h) \/ \E B : Continues(h, B)
  BY <1>2, <1>6, <1>7, <1>8
<1>10. /\ \A b \in {registered', local', target', leftover', armed', stalled'} : b \in BOOLEAN
       /\ local' /\ target' => local /\ target
       /\ queue' \in 0..QueueSize
  BY <1>1, Types DEF controlVars
<1>11. todo' \in [AllRoutines -> Seq(Instructions)]
  <2>1. RefreshClientList \in Seq(Instructions) /\ Rest(g) \in Seq(Instructions)
    BY <1>4, DoneIsNo, ProvesRefresh DEF Proves
  <2>2. QED
    BY <1>1, <2>1, Types
<1>12. QED
  BY <1>1, <1>9, <1>10, <1>11, WorkDone

\* A write to the client, which may fail and be logged.
LEMMA WriteToClientKeeps ==
  ASSUME LockInv, NEW g \in Routines, WriteToClient(g), UNCHANGED setting
  PROVE  LockInv'
<1>1. /\ g \in AllRoutines /\ UNCHANGED <<lockVars, controlVars, queue, stalled>>
      /\ Current(g) = Do("write")
      /\ todo' = [todo EXCEPT ![g] = Rest(g)] \/ todo' = [todo EXCEPT ![g] = Log \o Rest(g)]
  BY RoutinesAre DEF WriteToClient, Advance
<1>2. /\ todo'[g] = Rest(g) \/ todo'[g] = Log \o Rest(g)
      /\ \A h \in AllRoutines : h # g => todo'[h] = todo[h]
  BY <1>1, Types
<1>. DEFINE A == StateOf(g)
<1>3. A \in Assertions /\ A.holds = Holds(g) /\ A.knows = Knows(g)
  BY StateOfType DEF StateOf
<1>4. /\ Proves(A, Rest(g), Done) /\ todo[g] # <<>>
      /\ \A l \in Locks : Current(g) # Lock(l) /\ Current(g) # RLock(l)
  <2>1. Current(g)[1] \in {"do", "log"}
    BY <1>1 DEF Do
  <2>2. After(Current(g), A) = A
    BY <1>1, <1>3, AfterPlain
  <2>3. todo[g] # <<>>
    BY <1>1 DEF Current, Idle, Do
  <2>. HIDE DEF A
  <2>4. QED
    BY <1>1, <2>1, <2>2, <2>3, Onward DEF A
<1>5. Proves(A, todo'[g], Done)
  <2>. HIDE DEF A
  <2>1. Proves(A, Log \o Rest(g), Done)
    BY <1>3, <1>4, DoneIsNo, ProvesLog, ProvesThen
  <2>2. QED
    BY <1>2, <1>4, <2>1
<1>6. todo["escape"] = <<>> => todo'["escape"] = <<>>
  BY <1>2, <1>4, RoutinesAre
<1>7. Continues(g, A)
  BY <1>1, <1>3, <1>4, <1>5, <1>6, FactsStay DEF Continues
<1>8. ASSUME NEW h \in AllRoutines, h # g
      PROVE  Undisturbed(h)
  BY <1>1, <1>2, <1>6, <1>8, Bystander DEF controlVars
<1>9. \A h \in AllRoutines : Undisturbed(h) \/ \E B : Continues(h, B)
  BY <1>7, <1>8
<1>10. /\ \A b \in {registered', local', target', leftover', armed', stalled'} : b \in BOOLEAN
       /\ local' /\ target' => local /\ target
       /\ queue' \in 0..QueueSize
  BY <1>1, Types DEF controlVars
<1>11. todo' \in [AllRoutines -> Seq(Instructions)]
  <2>1. todo'[g] \in Seq(Instructions)
    BY <1>5 DEF Proves
  <2>2. todo' = [todo EXCEPT ![g] = todo'[g]]
    BY <1>1, <1>2, Types
  <2>3. QED
    BY <2>1, <2>2, Types
<1>12. QED
  BY <1>1, <1>9, <1>10, <1>11, WorkDone

\* The Ctrl+ESC goroutine is started by the device's, and only while it does not run.
LEMMA SpawnEscapeKeeps ==
  ASSUME LockInv, NEW g \in Routines, SpawnEscape(g), UNCHANGED setting
  PROVE  LockInv'
<1>1. /\ g \in AllRoutines /\ UNCHANGED <<lockVars, controlVars, queue, stalled>>
      /\ Current(g) = Do("spawn") /\ Do("spawn")[1] \in {"do", "log"}
      /\ todo' = [todo EXCEPT ![g] = Rest(g), !["escape"] = Escape]
  BY RoutinesAre DEF SpawnEscape, Do
<1>. DEFINE A == After(Do("spawn"), StateOf(g))
<1>2. /\ A \in Assertions /\ Proves(A, Rest(g), Done) /\ Allowed(Do("spawn"), StateOf(g))
      /\ \A l \in Locks : Current(g) # Lock(l) /\ Current(g) # RLock(l)
  BY <1>1, Onward
<1>3. "quiet" \in Knows(g)
  BY <1>2 DEF Allowed, StepAllowed, Do, StateOf
<1>4. g = "device" /\ Idle("escape") /\ g # "escape"
  BY <1>3 DEF Knows, FactsOf, IsFact, Idle
<1>5. /\ todo'[g] = Rest(g) /\ todo'["escape"] = Escape
      /\ \A h \in AllRoutines : h # g /\ h # "escape" => todo'[h] = todo[h]
  BY <1>1, <1>4, RoutinesAre, Types
<1>6. A.holds = Holds(g) /\ A.knows = Knows(g) \ {"quiet"}
  BY DEF After, HoldsAfter, KnowsAfter, Do, Lock, RLock, Unlock, RUnlock, StateOf
<1>7. A.knows \subseteq FactsOf(g, Holds(g), local', target', todo'["escape"])
  BY <1>1, <1>6 DEF Knows, FactsOf, IsFact, controlVars
<1>8. Continues(g, A)
  BY <1>2, <1>5, <1>6, <1>7 DEF Continues
<1>9. Continues("escape", Done)
  <2>1. Proves(Done, Escape, Done) /\ Done.holds = NoLocks /\ Done.knows = {}
    BY ProvesReleases, DoneIsNo DEF Done
  <2>2. /\ Holds("escape") = NoLocks
        /\ \A l \in Locks : Current("escape") # Lock(l) /\ Current("escape") # RLock(l)
    BY <1>4, RoutinesAre, IdleHoldsNothing
  <2>3. QED
    BY <1>5, <2>1, <2>2, DoneIsNo DEF Continues
<1>10. ASSUME NEW h \in AllRoutines, h # g, h # "escape"
       PROVE  Undisturbed(h)
  BY <1>1, <1>4, <1>5, <1>10, Bystander DEF controlVars
<1>11. \A h \in AllRoutines : Undisturbed(h) \/ \E B : Continues(h, B)
  BY <1>8, <1>9, <1>10
<1>12. /\ \A b \in {registered', local', target', leftover', armed', stalled'} : b \in BOOLEAN
       /\ local' /\ target' => local /\ target
       /\ queue' \in 0..QueueSize
  BY <1>1, Types DEF controlVars
<1>13. todo' \in [AllRoutines -> Seq(Instructions)]
  <2>1. Escape \in Seq(Instructions) /\ Rest(g) \in Seq(Instructions)
    BY <1>2, DoneIsNo, ProvesReleases DEF Proves
  <2>2. QED
    BY <1>1, <2>1, Types
<1>14. QED
  BY <1>1, <1>11, <1>12, <1>13, WorkDone

-----------------------------------------------------------------------------
(* What a step continues with is proved from the state it leaves.          *)

Controlling ==
  {"free", "grab", "partial", "arm", "expire", "reset", "goLocal", "goRemote", "register"}
Mid(step, A) ==
  [holds |-> A.holds,
   knows |-> IF step \in Controlling THEN KnowsAfter(Do(step), A) ELSE A.knows]

\* Assertions by the locks they claim.
LEMMA ByLocks ==
  ASSUME NEW A \in Assertions
  PROVE  /\ A.knows \in SUBSET Facts
         /\ A.holds = Alone("cm", "write") => A = Cm(A.knows)
         /\ A.holds = Alone("cm", "read") => A = CmRead(A.knows)
         /\ A.holds = Alone("a", "read") => A = ARead(A.knows)
  BY DEF Assertions, Cm, CmRead, ARead

\* What a step of the manager's operations, and of its readers, leads to.
LEMMA AfterStep ==
  ASSUME NEW A \in Assertions
  PROVE  /\ \A step \in {"release", "grant", "rotate", "unregister"} :
              A.holds = Alone("cm", "write") => After(Do(step), A) = Cm({"clean"})
         /\ \A step \in {"next", "answer", "peek", "chord"} : After(Do(step), A) = Done
         /\ A.holds = Alone("cm", "read") => After(Do("route"), A) = CmRead({})
<1>1. ASSUME NEW step \in {"release", "grant", "rotate", "unregister"}
      PROVE  HoldsAfter(Do(step), A) = A.holds /\ KnowsAfter(Do(step), A) = {"clean"}
  BY DEF HoldsAfter, KnowsAfter, Do, Lock, RLock, Unlock, RUnlock
<1>2. ASSUME NEW step \in {"next", "answer", "peek", "chord"}
      PROVE  HoldsAfter(Do(step), A) = NoLocks /\ KnowsAfter(Do(step), A) = {}
  BY DEF HoldsAfter, KnowsAfter, Do, Lock, RLock, Unlock, RUnlock
<1>3. HoldsAfter(Do("route"), A) = A.holds /\ KnowsAfter(Do("route"), A) = {}
  BY DEF HoldsAfter, KnowsAfter, Do, Lock, RLock, Unlock, RUnlock
<1>4. QED
  BY <1>1, <1>2, <1>3 DEF After, Cm, CmRead, Done

\* A lock given up, and cm taken.
LEMMA ProvesUnlocks ==
  ASSUME NEW F \in SUBSET Facts
  PROVE  /\ "clean" \in F => Proves(Cm(F), <<Unlock("cm")>>, Done)
         /\ Proves(CmRead(F), <<RUnlock("cm")>>, Done)
         /\ Proves(ARead(F), <<RUnlock("a")>>, No(F))
         /\ Proves(Done, <<Lock("cm")>>, Cm({"clean"}))
<1>1. /\ Cm(F) \in Assertions /\ CmRead(F) \in Assertions /\ ARead(F) \in Assertions
      /\ No(F) \in Assertions /\ Done \in Assertions
      /\ "cm" \in Locks /\ "a" \in Locks /\ "cm" # "a"
  BY Contexts, LocksDiffer
<1>2. \A A : Weaker(A, A)
  BY DEF Weaker
<1>3. ASSUME "clean" \in F
      PROVE  Proves(Cm(F), <<Unlock("cm")>>, Done)
  <2>1. Allowed(Unlock("cm"), Cm(F))
    BY <1>1, <1>3 DEF Allowed, Unlock, Cm, Alone, NoLocks
  <2>2. HoldsAfter(Unlock("cm"), Cm(F)) = NoLocks
    BY <1>1, AfterLock DEF Cm, Alone, NoLocks
  <2>3. Weaker(Done, After(Unlock("cm"), Cm(F)))
    BY <2>2 DEF Weaker, After, Done
  <2>4. QED
    BY <1>1, <1>2, <2>1, <2>3, LockInstructions, ProvesOne, ProvesAlso
<1>4. Proves(CmRead(F), <<RUnlock("cm")>>, Done)
  <2>1. Allowed(RUnlock("cm"), CmRead(F))
    BY <1>1 DEF Allowed, RUnlock, CmRead, Alone, NoLocks
  <2>2. HoldsAfter(RUnlock("cm"), CmRead(F)) = NoLocks
    BY <1>1, AfterLock DEF CmRead, Alone, NoLocks
  <2>3. Weaker(Done, After(RUnlock("cm"), CmRead(F)))
    BY <2>2 DEF Weaker, After, Done
  <2>4. QED
    BY <1>1, <1>2, <2>1, <2>3, LockInstructions, ProvesOne, ProvesAlso
<1>5. Proves(ARead(F), <<RUnlock("a")>>, No(F))
  <2>1. Allowed(RUnlock("a"), ARead(F))
    BY <1>1 DEF Allowed, RUnlock, ARead, Alone, NoLocks
  <2>2. HoldsAfter(RUnlock("a"), ARead(F)) = NoLocks
    BY <1>1, AfterLock DEF ARead, Alone, NoLocks
  <2>3. KnowsAfter(RUnlock("a"), ARead(F)) = F
    BY <1>1, AfterLock DEF ARead
  <2>4. After(RUnlock("a"), ARead(F)) = No(F)
    BY <2>2, <2>3 DEF After, No
  <2>5. QED
    BY <1>1, <2>1, <2>4, LockInstructions, ProvesOne
<1>6. Proves(Done, <<Lock("cm")>>, Cm({"clean"}))
  <2>1. Allowed(Lock("cm"), Done)
    BY DEF Allowed, Lock, Ordered, Done, NoLocks
  <2>2. HoldsAfter(Lock("cm"), Done) = Alone("cm", "write")
    BY <1>1, AfterLock DEF Done, Alone
  <2>3. KnowsAfter(Lock("cm"), Done) = {"clean"}
    BY <1>1, AfterLock DEF Done
  <2>4. After(Lock("cm"), Done) = Cm({"clean"})
    BY <2>2, <2>3 DEF After, Cm
  <2>5. QED
    BY <1>1, <2>1, <2>4, LockInstructions, ProvesOne
<1>7. QED
  BY <1>3, <1>4, <1>5, <1>6

\* What a step continues with, by cases.
LEMMA ContinuationsAre ==
  /\ Continuations("release") = IF local THEN {<<>>} ELSE {GiveBack}
  /\ Continuations("grant") =
       IF ~registered THEN {Log} ELSE IF local THEN {Grant, GrantFails} ELSE {<<>>}
  /\ Continuations("answer") = {ReadSection("cm", <<>>), <<>>}
  /\ Continuations("rotate") =
       IF ~registered THEN {Relinquish}
       ELSE IF ~local THEN {GiveBack}
       ELSE {<<Unlock("cm")>> \o SwitchToClient \o <<Lock("cm")>>}
  /\ Continuations("unregister") = IF local THEN {<<>>} ELSE {ReturnsControl}
  /\ Continuations("next") =
       {<<RUnlock("cm")>> \o (IF registered THEN SwitchToClient ELSE SwitchToLocal)
                         \o RefreshClientList}
  /\ Continuations("route") =
       IF local THEN {<<>>} ELSE {SendEventToClient, SendEventToClient \o Log}
  /\ Continuations("peek") = {<<RUnlock("a")>> \o (IF target THEN Input ELSE <<>>)}
  /\ Continuations("chord") =
       {<<RUnlock("a")>> \o (IF target THEN Log \o <<Do("spawn")>> ELSE <<>>)}
  BY DEF Continuations

\* The continuations, whatever the state in which the step is taken.
LEMMA ContinuationsProved ==
  ASSUME NEW A \in Assertions, NEW step \in Steps, step \notin {"write", "spawn"},
         StepAllowed(step, A), ~local /\ A.holds["cm"] # "no" => "remote" \in A.knows,
         NEW more \in Continuations(step)
  PROVE  Proves(Mid(step, A), more, After(Do(step), A))
<1>1. /\ A.knows \in SUBSET Facts /\ Cm({"clean"}) \in Assertions /\ CmRead({}) \in Assertions
      /\ Done \in Assertions
  BY Contexts DEF Assertions, Facts
<1>2. Alone("cm", "write")["cm"] # "no" /\ Alone("cm", "read")["cm"] # "no"
  BY LocksDiffer DEF Alone, NoLocks
<1>3. step \notin Controlling => Mid(step, A) = A
  BY DEF Mid, Assertions
<1>4. CASE step \in {"release", "grant", "rotate", "unregister"}
  <2>1. /\ A = Cm(A.knows) /\ "clean" \in A.knows /\ Mid(step, A) = A
        /\ After(Do(step), A) = Cm({"clean"}) /\ (~local => "remote" \in A.knows)
    BY <1>2, <1>3, <1>4, ByLocks, AfterStep DEF StepAllowed, Controlling
  <2>2. Weaker(Cm({"clean"}), A)
    BY <2>1 DEF Weaker, Cm
  <2>3. Proves(A, <<>>, Cm({"clean"}))
    BY <1>1, <2>2, ProvesNothing
  <2>4. Proves(A, Log, Cm({"clean"}))
    BY <2>2, ProvesLog, ProvesAlso DEF Weaker
  <2>5. Proves(A, Relinquish, Cm({"clean"})) /\ Proves(A, ReturnsControl, Cm({"clean"}))
    BY <1>1, <2>1, ProvesRelinquish
  <2>6. ~local => Proves(A, GiveBack, Cm({"clean"}))
    BY <1>1, <2>1, ProvesGiveBack
  <2>7. Proves(A, Grant, Cm({"clean"})) /\ Proves(A, GrantFails, Cm({"clean"}))
    BY <1>1, <2>1, ProvesGrant, ProvesGrantFails
  <2>8. Proves(A, <<Unlock("cm")>> \o SwitchToClient \o <<Lock("cm")>>, Cm({"clean"}))
    <3>1. /\ Proves(A, <<Unlock("cm")>>, Done) /\ Proves(Done, SwitchToClient, Done)
          /\ Proves(Done, <<Lock("cm")>>, Cm({"clean"}))
      BY <1>1, <2>1, ProvesUnlocks, ProvesOperations, DoneIsNo
    <3>2. Proves(A, <<Unlock("cm")>> \o SwitchToClient, Done)
      BY <1>1, <3>1, ProvesThen
    <3>3. QED
      BY <1>1, <3>1, <3>2, ProvesThen
  <2>9. more \in {<<>>, Log, Relinquish, ReturnsControl, Grant, GrantFails,
                  <<Unlock("cm")>> \o SwitchToClient \o <<Lock("cm")>>}
        \/ (~local /\ more = GiveBack)
    BY <1>4, ContinuationsAre
  <2>10. QED
    BY <2>1, <2>3, <2>4, <2>5, <2>6, <2>7, <2>8, <2>9
<1>5. CASE step = "next"
  <2>1. A = CmRead(A.knows) /\ Mid(step, A) = A /\ After(Do(step), A) = Done
    BY <1>3, <1>5, ByLocks, AfterStep DEF StepAllowed, Controlling
  <2>2. /\ Proves(A, <<RUnlock("cm")>>, Done) /\ Proves(Done, SwitchToClient, Done)
        /\ Proves(Done, SwitchToLocal, Done) /\ Proves(Done, RefreshClientList, Done)
    BY <1>1, <2>1, ProvesUnlocks, ProvesOperations, ProvesRefresh, DoneIsNo
  <2>3. ASSUME NEW s \in {SwitchToClient, SwitchToLocal}
        PROVE  Proves(A, <<RUnlock("cm")>> \o s \o RefreshClientList, Done)
    <3>1. Proves(A, <<RUnlock("cm")>> \o s, Done)
      BY <1>1, <2>2, ProvesThen
    <3>2. QED
      BY <1>1, <2>2, <3>1, ProvesThen
  <2>4. \E s \in {SwitchToClient, SwitchToLocal} :
          more = <<RUnlock("cm")>> \o s \o RefreshClientList
    BY <1>5, ContinuationsAre
  <2>5. QED
    BY <2>1, <2>3, <2>4
<1>6. CASE step = "route"
  <2>1. /\ A = CmRead(A.knows) /\ Mid(step, A) = A /\ After(Do(step), A) = CmRead({})
        /\ (~local => "remote" \in A.knows)
    BY <1>2, <1>3, <1>6, ByLocks, AfterStep DEF StepAllowed, Controlling
  <2>2. Weaker(CmRead({}), A) /\ Weaker(A, A)
    BY <2>1 DEF Weaker, CmRead
  <2>3. Proves(A, <<>>, CmRead({}))
    BY <1>1, <2>2, ProvesNothing
  <2>4. A.holds["ssh"] = "no" /\ A.holds["a"] = "no"
    BY <2>1, LocksDiffer DEF CmRead, Alone, NoLocks
  <2>5. ~local => Proves(A, SendEventToClient, A)
    BY <2>1, <2>4, ProvesSend
  <2>6. ~local => Proves(A, SendEventToClient, CmRead({}))
    BY <2>2, <2>5, ProvesAlso
  <2>7. Proves(A, Log, CmRead({}))
    BY <2>2, ProvesLog, ProvesAlso
  <2>8. ~local => Proves(A, SendEventToClient \o Log, CmRead({}))
    BY <1>1, <2>5, <2>7, ProvesThen
  <2>9. more = <<>> \/ (~local /\ more \in {SendEventToClient, SendEventToClient \o Log})
    BY <1>6, ContinuationsAre
  <2>10. QED
    BY <2>1, <2>3, <2>6, <2>8, <2>9
<1>7. CASE step \in {"peek", "chord"}
  <2>1. /\ A = ARead(A.knows) /\ Mid(step, A) = A /\ After(Do(step), A) = Done
        /\ (step = "chord" => "quiet" \in A.knows) /\ No(A.knows) \in Assertions
    BY <1>1, <1>3, <1>7, ByLocks, AfterStep, Contexts DEF StepAllowed, Controlling
  <2>2. Proves(A, <<RUnlock("a")>>, No(A.knows))
    BY <1>1, <2>1, ProvesUnlocks
  <2>3. Proves(No(A.knows), <<>>, Done)
    BY <1>1, <2>1, ProvesNothing DEF Weaker, No, Done
  <2>4. Proves(No(A.knows), Input, Done)
    BY <1>1, ProvesQuestions
  <2>5. step = "chord" => Proves(No(A.knows), Log \o <<Do("spawn")>>, Done)
    <3>1. SUFFICES ASSUME "quiet" \in A.knows
                   PROVE  Proves(No(A.knows), Log \o <<Do("spawn")>>, Done)
      BY <2>1
    <3>2. StepAllowed("spawn", No(A.knows)) /\ "spawn" \in Steps
      BY <3>1 DEF StepAllowed, No, Steps
    <3>3. HoldsAfter(Do("spawn"), No(A.knows)) = NoLocks
      BY DEF HoldsAfter, Do, No
    <3>4. Proves(No(A.knows), <<Do("spawn")>>, Done)
      BY <1>1, <2>1, <3>2, <3>3, ProvesStep DEF Weaker, After, Done
    <3>5. QED
      BY <1>1, <2>1, <3>4, ProvesLog, ProvesThen
  <2>6. \E s : /\ more = <<RUnlock("a")>> \o s
               /\ s \in {<<>>, Input} \/ (step = "chord" /\ s = Log \o <<Do("spawn")>>)
    BY <1>7, ContinuationsAre
  <2>7. QED
    BY <1>1, <2>1, <2>2, <2>3, <2>4, <2>5, <2>6, ProvesThen
<1>answer. CASE step = "answer"
  <2>1. /\ A = No(A.knows) /\ Mid(step, A) = A /\ After(Do(step), A) = Done
    BY <1>3, <1>answer, AfterStep DEF StepAllowed, Controlling, No, Assertions
  <2>2. Proves(No(A.knows), <<>>, Done)
    BY <1>1, <2>1, ProvesNothing DEF Weaker, No, Done
  <2>3. Proves(No(A.knows), ReadSection("cm", <<>>), Done)
    BY <1>1, ProvesOperations
  <2>4. more \in {ReadSection("cm", <<>>), <<>>}
    BY <1>answer, ContinuationsAre
  <2>5. QED
    BY <2>1, <2>2, <2>3, <2>4
<1>8. CASE step \in Controlling \cup {"enqueue"}
  <2>1. Weaker(After(Do(step), A), Mid(step, A)) /\ Mid(step, A) = After(Do(step), A)
    <3>1. HoldsAfter(Do(step), A) = A.holds
      BY <1>8 DEF HoldsAfter, Do, Controlling
    <3>2. step = "enqueue" => KnowsAfter(Do(step), A) = A.knows
      BY DEF KnowsAfter, Do, Lock, RLock, Unlock, RUnlock
    <3>3. QED
      BY <1>8, <3>1, <3>2 DEF Mid, After, Weaker, Controlling
  <2>2. After(Do(step), A) \in Assertions
    BY StepInstructions, AfterType
  <2>3. Proves(After(Do(step), A), <<>>, After(Do(step), A))
    BY <2>2, ProvesNothing DEF Weaker
  <2>4. Proves(After(Do(step), A), Log, After(Do(step), A))
    BY <2>2, ProvesLog
  <2>5. more \in {<<>>, Log}
    BY <1>8 DEF Continuations, Controlling
  <2>6. QED
    BY <2>1, <2>3, <2>4, <2>5
<1>9. QED
  BY <1>4, <1>5, <1>6, <1>7, <1>answer, <1>8 DEF Steps, Controlling

-----------------------------------------------------------------------------
(* Steps that change the control state, or ask for it.                     *)

\* What a step changes, by cases.
LEMMA EffectIs ==
  ASSUME NEW step, Effect(step), LockInv
  PROVE  /\ step \notin {"goLocal", "goRemote"} => local' = local
         /\ step \notin {"free", "expire", "grab"} => target' = target
         /\ step = "goLocal" => local' = TRUE
         /\ step = "goRemote" => local' = FALSE
         /\ step = "grab" => target' = TRUE
         /\ step \in {"free", "expire"} => target' = FALSE
         /\ registered' \in BOOLEAN /\ local' \in BOOLEAN /\ target' \in BOOLEAN
         /\ leftover' \in BOOLEAN /\ armed' \in BOOLEAN /\ queue' \in 0..QueueSize
<1>1. /\ local' \in BOOLEAN /\ target' \in BOOLEAN /\ registered' \in BOOLEAN
      /\ leftover' \in BOOLEAN /\ armed' \in BOOLEAN
  BY Types DEF Effect
<1>2. queue' \in 0..QueueSize
  BY Types, QueueAssumption DEF Effect, Room
<1>3. QED
  BY <1>1, <1>2 DEF Effect

\* What is known after a step is the case.
LEMMA FactsAfterStep ==
  ASSUME LockInv, NEW g \in AllRoutines, NEW step \in Steps, Effect(step),
         StepAllowed(step, StateOf(g)),
         g = "device" /\ todo["escape"] = <<>> => todo'["escape"] = <<>>
  PROVE  Mid(step, StateOf(g)).knows
           \subseteq FactsOf(g, Holds(g), local', target', todo'["escape"])
<1>. DEFINE K == Mid(step, StateOf(g)).knows
<1>1. StateOf(g).holds = Holds(g) /\ StateOf(g).knows = Knows(g) /\ K \subseteq Facts
  <2>1. StateOf(g) \in Assertions /\ Do(step) \in Instructions
    BY StateOfType, StepInstructions
  <2>2. After(Do(step), StateOf(g)) \in Assertions
    BY <2>1, AfterType
  <2>3. KnowsAfter(Do(step), StateOf(g)) \subseteq Facts
    BY <2>2 DEF After, Assertions
  <2>4. QED
    BY <2>1, <2>3 DEF StateOf, Mid, Assertions
<1>2. ASSUME NEW f \in K, f = "quiet"
      PROVE  f \in Knows(g)
  BY <1>1, <1>2 DEF Mid, KnowsAfter, Do, Lock, RLock, Unlock, RUnlock, Controlling
<1>3. ASSUME "quiet" \in Knows(g)
      PROVE  IsFact("quiet", g, Holds(g), local', target', todo'["escape"])
  BY <1>3 DEF Knows, FactsOf, IsFact
<1>4. ASSUME NEW f \in Knows(g), f # "quiet"
      PROVE  /\ Holds(g)["cm"] # "no"
             /\ f = "remote" => ~local
             /\ f = "free" => ~target
             /\ f = "clean" => ~(local /\ target)
  BY <1>4 DEF Knows, FactsOf, IsFact
<1>effect. /\ step \notin {"goLocal", "goRemote"} => local' = local
           /\ step \notin {"free", "expire", "grab"} => target' = target
           /\ step = "goRemote" => ~local'
           /\ step \in {"free", "expire"} => ~target'
  BY EffectIs
<1>5. ASSUME NEW f \in K, f # "quiet"
      PROVE  IsFact(f, g, Holds(g), local', target', todo'["escape"])
  <2>1. CASE step \notin Controlling \/ step \in {"partial", "arm", "reset", "register"}
    <3>1. f \in Knows(g)
      BY <1>1, <1>5, <2>1
         DEF Mid, KnowsAfter, Do, Lock, RLock, Unlock, RUnlock, Controlling
    <3>2. local' = local /\ target' = target
      BY <1>effect, <2>1 DEF Controlling
    <3>3. QED
      BY <1>5, <3>1, <3>2 DEF Knows, FactsOf, IsFact
  <2>2. CASE step = "free"
    <3>1. K = IF Holds(g)["cm"] = "no" THEN Knows(g) ELSE Knows(g) \cup {"free", "clean"}
      BY <1>1, <2>2 DEF Mid, KnowsAfter, Do, Lock, RLock, Unlock, RUnlock, Controlling
    <3>2. local' = local /\ ~target'
      BY <1>effect, <2>2
    <3>3. QED
      BY <1>1, <1>4, <1>5, <3>1, <3>2 DEF IsFact, Facts
  <2>3. CASE step = "grab"
    <3>1. K = Knows(g) \ {"free", "clean"}
      BY <1>1, <2>3 DEF Mid, KnowsAfter, Do, Lock, RLock, Unlock, RUnlock, Controlling
    <3>2. local' = local
      BY <1>effect, <2>3
    <3>3. f \in Knows(g) /\ f = "remote"
      BY <1>1, <1>5, <3>1 DEF Facts
    <3>4. QED
      BY <1>4, <3>2, <3>3 DEF IsFact
  <2>4. CASE step = "goLocal"
    <3>1. K = Knows(g) \ {"remote"}
      BY <1>1, <2>4 DEF Mid, KnowsAfter, Do, Lock, RLock, Unlock, RUnlock, Controlling
    <3>2. "free" \in Knows(g) /\ target' = target
      BY <1>1, <1>effect, <2>4 DEF StepAllowed
    <3>3. ~target'
      BY <1>4, <3>2
    <3>4. f \in Knows(g) /\ f \in {"free", "clean"}
      BY <1>1, <1>5, <3>1 DEF Facts
    <3>5. QED
      BY <1>4, <3>3, <3>4 DEF IsFact
  <2>5. CASE step = "goRemote"
    <3>1. K = Knows(g) \cup {"remote", "clean"}
      BY <1>1, <2>5 DEF Mid, KnowsAfter, Do, Lock, RLock, Unlock, RUnlock, Controlling
    <3>2. Holds(g)["cm"] # "no" /\ ~local' /\ target' = target
      BY <1>1, <1>effect, <2>5 DEF StepAllowed
    <3>3. f \in {"remote", "clean"} \/ f = "free"
      BY <1>1, <1>5 DEF Facts
    <3>4. f = "free" => ~target'
      BY <1>4, <1>5, <3>1, <3>2
    <3>5. QED
      BY <3>2, <3>3, <3>4 DEF IsFact
  <2>6. CASE step = "expire"
    <3>1. f \in Knows(g)
      BY <1>1, <1>5, <2>6
         DEF Mid, KnowsAfter, Do, Lock, RLock, Unlock, RUnlock, Controlling
    <3>2. local' = local /\ ~target'
      BY <1>effect, <2>6
    <3>3. QED
      BY <1>1, <1>4, <1>5, <3>1, <3>2 DEF IsFact, Facts
  <2>7. QED
    BY <2>1, <2>2, <2>3, <2>4, <2>5, <2>6 DEF Controlling
<1>. HIDE DEF K
<1>6. \A f \in K : f \in FactsOf(g, Holds(g), local', target', todo'["escape"])
  BY <1>1, <1>2, <1>3, <1>5 DEF FactsOf
<1>7. QED
  BY <1>6 DEF K

\* Every other step: the goroutine goes on with what the step continues with.
LEMMA StepKeeps ==
  ASSUME LockInv, NEW g \in Routines, Step(g), UNCHANGED setting
  PROVE  LockInv'
<1>1. PICK step : /\ Current(g) = Do(step) /\ step \notin {"write", "spawn"} /\ Effect(step)
                  /\ \E more \in Continuations(step) :
                       todo' = [todo EXCEPT ![g] = more \o Rest(g)]
  BY DEF Step
<1>2. PICK more \in Continuations(step) : todo' = [todo EXCEPT ![g] = more \o Rest(g)]
  BY <1>1
<1>3. g \in AllRoutines /\ UNCHANGED <<lockVars, stalled>> /\ Do(step)[1] \in {"do", "log"}
  BY RoutinesAre DEF Step, Do
<1>. DEFINE A == StateOf(g)
            B == After(Do(step), A)
            M == Mid(step, A)
<1>4. A \in Assertions /\ A.holds = Holds(g) /\ A.knows = Knows(g)
  BY StateOfType DEF StateOf
<1>5. /\ Do(step) \in Instructions /\ Allowed(Do(step), A) /\ Proves(B, Rest(g), Done)
      /\ B \in Assertions
      /\ \A l \in Locks : Current(g) # Lock(l) /\ Current(g) # RLock(l)
  BY <1>1, <1>3, Onward
<1>6. step \in Steps /\ StepAllowed(step, A)
  BY <1>5 DEF Instructions, Do, Allowed, Line, RefreshMessage
<1>7. M \in Assertions /\ M.holds = Holds(g)
  <2>1. KnowsAfter(Do(step), A) \subseteq Facts
    BY <1>5 DEF After, Assertions
  <2>2. QED
    BY <1>4, <2>1 DEF Mid, Assertions
<1>8. ~local /\ A.holds["cm"] # "no" => "remote" \in A.knows
  BY <1>4 DEF Knows, FactsOf, IsFact, Facts
<1>. HIDE DEF A, B, M
<1>9. Proves(M, more, B)
  BY <1>1, <1>4, <1>6, <1>8, ContinuationsProved DEF B, M
<1>10. Proves(M, more \o Rest(g), Done)
  BY <1>5, <1>7, <1>9, DoneIsNo, ProvesThen
<1>11. /\ todo'[g] = more \o Rest(g) /\ \A h \in AllRoutines : h # g => todo'[h] = todo[h]
       /\ todo' \in [AllRoutines -> Seq(Instructions)]
  BY <1>2, <1>3, <1>10, Types DEF Proves
<1>12. todo["escape"] = <<>> => todo'["escape"] = <<>>
  <2>1. todo[g] # <<>>
    BY <1>1 DEF Current, Idle, Do
  <2>2. QED
    BY <1>11, <2>1, RoutinesAre
<1>13. M.knows \subseteq FactsOf(g, Holds(g), local', target', todo'["escape"])
  BY <1>1, <1>3, <1>6, <1>12, FactsAfterStep DEF A, M
<1>14. Continues(g, M)
  BY <1>5, <1>7, <1>10, <1>11, <1>13 DEF Continues
<1>15. step \in {"grab", "goLocal", "goRemote"} => Holds(g)["cm"] = "write"
  BY <1>4, <1>6 DEF StepAllowed
<1>16. ASSUME NEW h \in AllRoutines, h # g
       PROVE  Undisturbed(h)
  <2>1. Holds(h)["cm"] # "no" => step \notin {"grab", "goLocal", "goRemote"}
    BY <1>3, <1>15, <1>16, WriterAlone, LocksDiffer
  <2>2. Holds(h)["cm"] # "no" =>
          (local' => local) /\ (target' => target) /\ (local' /\ target' => local /\ target)
    BY <1>1, <2>1, EffectIs
  <2>3. QED
    BY <1>3, <1>11, <1>12, <1>16, <2>2, Bystander
<1>17. \A h \in AllRoutines : Undisturbed(h) \/ \E C : Continues(h, C)
  BY <1>14, <1>16
<1>18. local' /\ target' =>
         (local /\ target) \/ \E h \in Routines : Holds(h)["cm"] = "write"
  BY <1>1, <1>15, EffectIs
<1>19. /\ \A b \in {registered', local', target', leftover', armed', stalled'} : b \in BOOLEAN
       /\ queue' \in 0..QueueSize
  BY <1>1, <1>3, EffectIs, Types
<1>20. QED
  BY <1>3, <1>11, <1>17, <1>18, <1>19, WorkDone

-----------------------------------------------------------------------------
(* What starts a goroutine, and the theorems.                              *)

\* Every operation that begins is proved from no lock; the chord also from "quiet".
LEMMA StartKeeps ==
  ASSUME LockInv, Start, UNCHANGED setting
  PROVE  LockInv'
<1>1. /\ {} \in SUBSET {"quiet"} /\ {} \in SUBSET Facts /\ No({}) = Done
      /\ {"quiet"} \in SUBSET {"quiet"} /\ {"quiet"} \in SUBSET Facts
  BY Contexts DEF Facts
<1>2. /\ UNCHANGED <<lockVars, registered, local, target, leftover>> /\ armed' \in BOOLEAN
      /\ queue' \in 0..QueueSize /\ stalled' \in BOOLEAN
  <2>1. /\ UNCHANGED <<lockVars, registered, local, target, leftover>>
        /\ \E g : armed' = (armed /\ g # "timer")
    BY DEF Start, Begin, PressTab, PressDigit, PressZero, RefreshTick, IpcCommand, DeviceEvent,
           PressChord, TakeEvent, TimerExpires, Signal, ClientArrives, ClientLeaves,
           ClientReleases
  <2>2. queue' = queue \/ (queue > 0 /\ queue' = queue - 1)
    BY DEF Start, PressTab, PressDigit, PressZero, RefreshTick, IpcCommand, DeviceEvent,
           PressChord, TakeEvent, TimerExpires, Signal, ClientArrives, ClientLeaves,
           ClientReleases
  <2>3. stalled' = stalled \/ stalled' = FALSE
    BY DEF Start, PressTab, PressDigit, PressZero, RefreshTick, IpcCommand, DeviceEvent,
           PressChord, TakeEvent, TimerExpires, Signal, ClientArrives, ClientLeaves,
           ClientReleases
  <2>4. stalled' \in BOOLEAN
    BY <2>3, Types
  <2>5. queue \in 0..QueueSize
    BY Types
  <2>6. queue' \in 0..QueueSize
    BY <2>2, <2>5, QueueAssumption
  <2>7. armed' \in BOOLEAN
    BY <2>1, Types
  <2>8. QED
    BY <2>1, <2>4, <2>6, <2>7
<1>3. ASSUME NEW g \in AllRoutines \ {"escape"}, NEW stimulus, NEW script,
             Begin(stimulus, g, script), Proves(No({}), script, Done)
      PROVE  LockInv'
  <2>1. Idle(g) /\ todo' = [todo EXCEPT ![g] = script]
    BY <1>3 DEF Begin
  <2>2. QED
    BY <1>1, <1>2, <1>3, <2>1, BeginKeeps
<1>4. CASE PressChord
  <2>1. /\ Idle("escape") /\ Idle("device")
        /\ todo' = [todo EXCEPT !["device"] = <<RLock("a"), Do("chord")>>]
    BY <1>4 DEF PressChord, Begin
  <2>2. Proves(No({"quiet"}), <<RLock("a"), Do("chord")>>, Done)
    BY <1>1, ProvesQuestions
  <2>3. "device" \in AllRoutines /\ "device" # "escape"
    BY RoutinesAre
  <2>4. QED
    BY <1>1, <1>2, <2>1, <2>2, <2>3, BeginKeeps
<1>5. CASE PressTab \/ PressDigit \/ PressZero \/ RefreshTick
  <2>1. /\ Proves(No({}), Tab, Done) /\ Proves(No({}), SwitchToClient, Done)
        /\ Proves(No({}), SwitchToLocal, Done) /\ Proves(No({}), RefreshClientList, Done)
    BY <1>1, ProvesQuestions, ProvesOperations, ProvesRefresh
  <2>2. {"ui", "key"} \subseteq AllRoutines \ {"escape"}
    BY DEF AllRoutines
  <2>3. QED
    BY <1>3, <1>5, <2>1, <2>2 DEF PressTab, PressDigit, PressZero, RefreshTick
<1>6. CASE IpcCommand \/ DeviceEvent \/ TakeEvent
  <2>1. /\ Proves(No({}), SwitchNext, Done)
        /\ Proves(No({}), Section("a", <<Do("reset")>>) \o <<Do("enqueue")>>, Done)
        /\ Proves(No({}), <<RLock("a"), Do("peek")>>, Done)
    BY <1>1, ProvesSwitchNext, ProvesEvent, ProvesQuestions
  <2>2. {"ipc", "device", "pump"} \subseteq AllRoutines \ {"escape"}
    BY DEF AllRoutines
  <2>3. QED
    BY <1>3, <1>6, <2>1, <2>2 DEF IpcCommand, DeviceEvent, TakeEvent
<1>7. CASE TimerExpires \/ Signal \/ ClientArrives \/ ClientLeaves \/ ClientReleases
  <2>1. /\ Proves(No({}), TimerFires, Done) /\ Proves(No({}), TriggerRelease, Done)
        /\ Proves(No({}), Log \o SwitchToLocal, Done)
        /\ Proves(No({}), RegisterClient, Done) /\ Proves(No({}), UnregisterClient, Done)
    BY <1>1, ProvesReleases, ProvesRegistration
  <2>2. {"timer", "signal", "session"} \subseteq AllRoutines \ {"escape"}
    BY DEF AllRoutines
  <2>3. QED
    BY <1>3, <1>7, <2>1, <2>2
       DEF TimerExpires, Signal, ClientArrives, ClientLeaves, ClientReleases
<1>8. QED
  BY <1>4, <1>5, <1>6, <1>7 DEF Start

\* Nothing happens to the locks, the control state and what there is to do.
LEMMA StutterKeeps ==
  ASSUME LockInv, UNCHANGED <<todo, lockVars, controlVars, queue, setting>>,
         stalled' \in BOOLEAN
  PROVE  LockInv'
<1>1. \A h \in AllRoutines : Undisturbed(h)
  BY Bystander DEF controlVars
<1>2. QED
  BY <1>1, Types, WorkDone DEF controlVars

\* Everyone is idle at the start.
LEMMA InitLocks == Init => LockInv
<1>. SUFFICES ASSUME Init PROVE LockInv
  OBVIOUS
<1>1. TypeOK
  <2>1. todo \in [AllRoutines -> Seq(Instructions)]
    BY DEF Init
  <2>2. writer \in [Locks -> Routines \cup {Nobody}]
    BY DEF Init
  <2>3. readers \in [Locks -> SUBSET Routines] /\ pending \in [Locks -> SUBSET Routines]
    BY DEF Init
  <2>4. \A b \in {registered, local, target, leftover, armed, stalled} : b \in BOOLEAN
    BY DEF Init
  <2>5. queue \in 0..QueueSize /\ setting \in Settings
    BY QueueAssumption DEF Init
  <2>6. QED
    BY <2>1, <2>2, <2>3, <2>4, <2>5 DEF TypeOK
<1>2. \A g \in AllRoutines : Holds(g) = NoLocks
  BY RoutinesAre DEF Init, Holds, HoldsOf, ModeOf, NoLocks
<1>3. ASSUME NEW g \in AllRoutines
      PROVE  Proves(StateOf(g), todo[g], Done)
  <2>1. todo[g] = <<>> /\ StateOf(g) \in Assertions /\ Weaker(Done, StateOf(g))
    BY <1>2, StateOfType DEF Init, StateOf, Weaker, Done
  <2>2. QED
    BY <2>1, DoneIsNo, ProvesNothing
<1>4. Exclusive /\ Owned
  BY DEF Init, Exclusive, Owned
<1>5. QED
  BY <1>1, <1>3, <1>4 DEF LockInv, Carried

\* Every step keeps what each goroutine has to do proved.
LEMMA NextLocks == LockInv /\ [Next]_vars => LockInv'
<1>. SUFFICES ASSUME LockInv, [Next]_vars PROVE LockInv'
  OBVIOUS
<1>1. ASSUME NEW g \in Routines, Proceed(g), UNCHANGED setting
      PROVE  LockInv'
  <2>1. ASSUME NEW l \in Locks, Announce(g, l) \/ Acquire(g, l) \/ ReleaseLock(g, l)
        PROVE  LockInv'
    BY <1>1, <2>1, AnnounceKeeps, AcquireKeeps, ReleaseLockKeeps
  <2>2. ASSUME NEW l \in Locks, WaitToRead(g, l) \/ ReadAcquire(g, l) \/ ReadRelease(g, l)
        PROVE  LockInv'
    BY <1>1, <2>2, WaitToReadKeeps, ReadAcquireKeeps, ReadReleaseKeeps
  <2>3. QED
    BY <1>1, <2>1, <2>2, WriteLogKeeps, WriteToClientKeeps, StepKeeps, SpawnEscapeKeeps
       DEF Proceed
<1>2. ASSUME ClientStalls, UNCHANGED setting
      PROVE  LockInv'
  <2>1. stalled' \in BOOLEAN /\ UNCHANGED <<todo, lockVars, controlVars, queue, setting>>
    BY <1>2 DEF ClientStalls
  <2>2. QED
    BY <2>1, StutterKeeps
<1>3. CASE UNCHANGED vars
  <2>1. stalled' \in BOOLEAN /\ UNCHANGED <<todo, lockVars, controlVars, queue, setting>>
    BY <1>3, Types DEF vars
  <2>2. QED
    BY <2>1, StutterKeeps
<1>4. QED
  BY <1>1, <1>2, <1>3, StartKeeps DEF Next

\* The inductive invariant of every interleaving.
THEOREM LocksInvariant == Spec => []LockInv
  BY InitLocks, NextLocks, PTL DEF Spec

\* Type correctness: every goroutine has a sequence of the program's instructions to do,
\* the locks are had by goroutines that take part, and the queue keeps its capacity.
THEOREM TypeCorrect == Spec => []TypeOK
<1>1. LockInv => TypeOK
  BY DEF LockInv
<1>2. QED
  BY <1>1, LocksInvariant, PTL

\* No goroutine asks for the manager's lock while it holds a lock, and none asks for the
\* channel's or the backend's while it holds one of these: the calls from the manager to
\* the backend and the calls from the backend to the manager cannot wait for each other.
THEOREM LocksInOrder == Spec => []LockOrder
<1>1. LockInv => LockOrder
  <2>1. SUFFICES ASSUME LockInv, NEW g \in Routines, NEW l \in Locks,
                        Current(g) \in {Lock(l), RLock(l)}, NEW k \in Held(g)
                 PROVE  k \in IF l = "cm" THEN {} ELSE {"cm"}
    BY DEF LockOrder
  <2>2. Allowed(Current(g), StateOf(g))
    <3>1. Current(g)[1] # "idle" /\ g \in AllRoutines
      BY <2>1, RoutinesAre DEF Lock, RLock
    <3>2. QED
      BY <2>1, <3>1, AtWork
  <2>3. Ordered(StateOf(g), l)
    BY <2>1, <2>2 DEF Allowed, Lock, RLock
  <2>4. k \in Locks /\ Holds(g)[k] # "no"
    BY <2>1, HoldsMeans DEF Held
  <2>5. k = "cm" /\ l # "cm"
    BY <2>3, <2>4 DEF Ordered, StateOf
  <2>6. QED
    BY <2>5
<1>2. QED
  BY <1>1, LocksInvariant, PTL

\* Whoever is at a write to the client knows that a client has control.
LEMMA WritesRemote ==
  ASSUME LockInv, NEW g \in AllRoutines, Current(g) = Do("write")
  PROVE  ~local
<1>1. Do("write")[1] # "idle"
  BY DEF Do
<1>2. Allowed(Do("write"), StateOf(g))
  BY <1>1, AtWork
<1>3. "remote" \in Knows(g)
  BY <1>2 DEF Allowed, StepAllowed, Do, StateOf
<1>4. QED
  BY <1>3 DEF Knows, FactsOf, IsFact

\* An event is written to the client only while the client has control: a release that
\* has been carried out is not followed by input captured before it.
THEOREM NoLateInput == Spec => []NoInputAfterRelease
<1>1. LockInv => NoInputAfterRelease
  BY WritesRemote DEF AllRoutines, NoInputAfterRelease
<1>2. QED
  BY <1>1, LocksInvariant, PTL

\* Whatever the order in which the goroutines release, switch, expire and fail to grab, a
\* target while the control state is local means that an operation of the manager is under
\* way: when cm is free, input is not captured for a client that has no control.
THEOREM TargetOwned == Spec => []TargetHasOwner
<1>1. LockInv => TargetHasOwner
  BY HoldsMeans, LocksDiffer DEF LockInv, Owned, TargetHasOwner
<1>2. QED
  BY <1>1, LocksInvariant, PTL

\* The write is the captured input's or a control message's: no goroutine is at a write
\* to the client after control has gone back, whatever made it write.
THEOREM WritesAreRemote ==
  Spec => [](\A g \in AllRoutines : Current(g) = Do("write") => ~local)
<1>1. LockInv => \A g \in AllRoutines : Current(g) = Do("write") => ~local
  BY WritesRemote
<1>2. QED
  BY <1>1, LocksInvariant, PTL

\* The locks exclude each other's holders as sync.RWMutex promises and as the model's
\* announcing writers and waiting readers must: a writer is alone.
THEOREM WriterExcludes ==
  Spec => [](\A g, h \in Routines, l \in Locks :
               g # h /\ Writes(g, l) => ~Writes(h, l) /\ ~Reads(h, l))
<1>1. LockInv => \A g, h \in Routines, l \in Locks :
                   g # h /\ Writes(g, l) => ~Writes(h, l) /\ ~Reads(h, l)
  BY RoutinesAre, WriterAlone, HoldsMeans
<1>2. QED
  BY <1>1, LocksInvariant, PTL
=============================================================================
