------------------------- MODULE InstanceLockProofs -------------------------
(***************************************************************************)
(* InstanceLock for any number of starts, process numbers, rounds, faults  *)
(* and reboots: at most one owner, the highest generation is never         *)
(* removed, and a starter loses a round only to someone else's progress.   *)
(*                                                                         *)
(* The inductive invariant: the file of an owner is the highest one; what  *)
(* is removed has a higher one above it; and a starter about to create the *)
(* generation after the one of another live process was overtaken, so that *)
(* its next listing shows a higher file.                                   *)
(***************************************************************************)
EXTENDS InstanceLock, TLAPS

Higher(n) == \E f \in files : f.gen > n

AtLeast(n) == \E f \in files : f.gen >= n

AtMost(n) == \A f \in files : f.gen <= n

UniqueInv == \A f, g \in files : f.gen = g.gen => f = g

\* Live processes have numbers of their own and know this boot or none.
SelfInv ==
  /\ \A p, q \in Procs : Live(p) /\ Live(q) /\ pid[p] = pid[q] => p = q
  /\ \A p \in Procs : Live(p) => pid[p] \in Pids /\ bootId[p] \in {Unknown, boot}
  /\ \A p \in Procs : ~Live(p) => bootId[p] = Unknown /\ todo[p] = {}

\* What is removed lies below a file that stays.
RemovalInv ==
  /\ \A p \in Procs : \A g \in todo[p] : Higher(g)
  /\ \A p \in Procs : pc[p] = "backoff" => Higher(mine[p])

\* An owner's file is the highest; a file not verified yet is there, or lies below another.
FileInv ==
  \A p \in Procs :
    /\ pc[p] \in Owning => Held(p) \in files /\ AtMost(mine[p])
    /\ pc[p] = "verify" => Held(p) \in files \/ Higher(mine[p])
    /\ pc[p] = "marked" => AtLeast(mine[p] + 1)
    /\ pc[p] \in Owning \cup {"read", "create", "verify", "backoff", "marked"} => mine[p] > 0

\* The judged generation, or a higher one, is still there.
JudgedInv ==
  \A p \in Procs : pc[p] \in {"read", "create"} /\ mine[p] > 1 => AtLeast(mine[p] - 1)

\* Nobody judged the generation of a live process free, unless that one is overtaken.
FreeInv ==
  \A p, q \in Procs :
    pc[p] = "create" /\ pc[q] \in Owning \cup {"verify"} /\ mine[p] = mine[q] + 1
      => Higher(mine[q])

\* What a starter listed is still the truth while nobody created a generation.
NewsInv ==
  \A p \in Procs : p \notin beaten =>
    /\ pc[p] = "read" => AtMost(mine[p] - 1) /\ Exists(mine[p] - 1)
    /\ pc[p] = "create" => AtMost(mine[p] - 1)
    /\ pc[p] = "verify" => AtMost(mine[p])
    /\ pc[p] # "backoff"

LockInv ==
  /\ TypeOK /\ UniqueInv /\ SelfInv /\ RemovalInv /\ FileInv /\ JudgedInv /\ FreeInv /\ NewsInv

Pcs == Starting \cup Owning \cup {"off", "marked", "leaving", "ended"}

----------------------------------------------------------------------------

LEMMA InitLockInv == Init => LockInv
<1> SUFFICES ASSUME Init PROVE LockInv
  OBVIOUS
<1>1. TypeOK
  BY DEF Init, TypeOK, Starting, Owning, Unknown, NoPid
<1> QED
  BY <1>1 DEF Init, LockInv, UniqueInv, SelfInv, RemovalInv, FileInv, JudgedInv, FreeInv, NewsInv,
              Live, Owning, Unknown

\* Removing a file that has a higher one above it keeps every bound from below.
LEMMA RemoveKeeps ==
  ASSUME TypeOK, NEW n \in Nat, Higher(n), Remove(n)
  PROVE  /\ files' \subseteq files
         /\ \A f \in files : f.gen # n => f \in files'
         /\ \A k \in Int : (AtLeast(k) => AtLeast(k)') /\ (Higher(k) => Higher(k)')
         /\ \A k \in Int : AtMost(k) => AtMost(k)'
         /\ faults' \in Nat
<1>1. files' \subseteq files /\ (\A f \in files : f.gen # n => f \in files') /\ faults' \in Nat
  BY DEF Remove, Fault, TypeOK
<1>2. PICK h \in files : h.gen > n
  BY DEF Higher
<1>3. h \in files' /\ h.gen \in Nat /\ \A f \in files : f.gen \in Nat
  BY <1>1, <1>2 DEF TypeOK, Record
<1>4. ASSUME NEW k \in Int PROVE (AtLeast(k) => AtLeast(k)') /\ (Higher(k) => Higher(k)')
  BY <1>1, <1>2, <1>3 DEF AtLeast, Higher
<1>5. ASSUME NEW k \in Int PROVE AtMost(k) => AtMost(k)'
  BY <1>1 DEF AtMost
<1> QED
  BY <1>1, <1>4, <1>5

\* Two owners would have the same, highest file.
LEMMA InvOneOwner == LockInv => OneOwner
<1> SUFFICES ASSUME LockInv, NEW p \in Procs, NEW q \in Procs, pc[p] \in Owning, pc[q] \in Owning
             PROVE  p = q
  BY DEF OneOwner
<1>1. Held(p) \in files /\ Held(q) \in files /\ AtMost(mine[p]) /\ AtMost(mine[q])
  BY DEF LockInv, FileInv
<1>2. Held(p).gen = mine[p] /\ Held(q).gen = mine[q] /\ mine[p] \in Nat /\ mine[q] \in Nat
  BY DEF Held, LockInv, TypeOK
<1>3. Held(p) = Held(q)
  BY <1>1, <1>2 DEF AtMost, LockInv, UniqueInv
<1>4. Held(p).owner = p /\ Held(q).owner = q
  BY DEF Held
<1> QED
  BY <1>3, <1>4

\* A step of p that leaves the directory and the listings alone and moves p on.
LEMMA MoveInv ==
  ASSUME LockInv, NEW p \in Procs, NEW label \in Pcs, At(p, label), Live(p), label # "off",
         UNCHANGED <<files, boot, pid, bootId, mine, beaten, reboots>>,
         round' \in [Procs -> Nat], todo' \in [Procs -> SUBSET Nat], faults' \in Nat,
         \A q \in Procs : q # p => todo'[q] = todo[q],
         \A g \in todo'[p] : Higher(g),
         label = "ended" => FALSE,
         label = "backoff" => pc[p] = "verify" /\ Higher(mine[p]) /\ p \in beaten,
         label \in Owning =>
           Held(p) \in files /\ AtMost(mine[p]) /\ mine[p] > 0 /\ pc[p] \in Owning \cup {"verify"},
         label # "read", label = "create" => pc[p] = "read",
         label = "create" =>
           \A q \in Procs : pc[q] \in Owning \cup {"verify"} /\ mine[p] = mine[q] + 1
                              => Higher(mine[q]),
         label = "verify" => FALSE,
         label = "marked" => FALSE
  PROVE  LockInv'
<1> USE DEF LockInv, Pcs
<1>1. /\ pc'[p] = label /\ \A q \in Procs : q # p => pc'[q] = pc[q]
      /\ pc' \in [Procs -> Pcs]
  BY DEF At, TypeOK
<1>2. TypeOK'
  BY <1>1 DEF TypeOK
<1>3. /\ \A n : (Higher(n)' <=> Higher(n)) /\ (AtLeast(n)' <=> AtLeast(n)) /\ (AtMost(n)' <=> AtMost(n))
      /\ \A n : Exists(n)' <=> Exists(n)
      /\ \A q : Held(q)' = Held(q)
  BY DEF Higher, AtLeast, AtMost, Exists, Generations, Held
<1>4. \A q \in Procs : Live(q)' <=> Live(q)
  BY <1>1 DEF Live
<1>5. UniqueInv' /\ SelfInv'
  BY <1>1, <1>4 DEF UniqueInv, SelfInv
<1>6. RemovalInv'
  BY <1>1, <1>3 DEF RemovalInv
<1>7. FileInv'
  BY <1>1, <1>3 DEF FileInv, Owning
<1>8. JudgedInv'
  BY <1>1, <1>3 DEF JudgedInv
<1>9. FreeInv'
  BY <1>1, <1>3 DEF FreeInv, Owning
<1>10. NewsInv'
  BY <1>1, <1>3 DEF NewsInv
<1> QED
  BY <1>2, <1>5, <1>6, <1>7, <1>8, <1>9, <1>10

----------------------------------------------------------------------------
(* The steps that only move a process on *)

LEMMA RoundInv ==
  ASSUME LockInv, NEW p \in Procs, pc[p] \in {"read", "create"}, NextRound(p),
         UNCHANGED <<files, boot, self, mine, todo, beaten, reboots>>, faults' \in Nat
  PROVE  LockInv'
<1> DEFINE label == IF round[p] + 1 < MaxRounds THEN "list" ELSE "leaving"
<1>1. label \in Pcs /\ label \in {"list", "leaving"}
  BY DEF Pcs, Starting
<1>2. At(p, label) /\ round' \in [Procs -> Nat]
  BY DEF NextRound, LockInv, TypeOK
<1>3. todo' \in [Procs -> SUBSET Nat] /\ faults' \in Nat /\ \A g \in todo'[p] : Higher(g)
  BY DEF LockInv, TypeOK, RemovalInv
<1> HIDE DEF label
<1> QED
  BY <1>1, <1>2, <1>3, MoveInv DEF self, Live, Owning

LEMMA ReadInv ==
  ASSUME LockInv, NEW p \in Procs, Read(p)
  PROVE  LockInv'
<1>1. PICK f \in files :
        /\ f.gen = mine[p] - 1
        /\ \/ /\ At(p, IF IsFree(f, p, Running(f.pid)) THEN "create" ELSE "leaving")
              /\ UNCHANGED faults
           \/ /\ ~Running(f.pid) /\ ~IsFree(f, p, TRUE) /\ Fault
              /\ At(p, "leaving")
  BY DEF Read
<1>2. PICK label \in {"create", "leaving"} :
        At(p, label) /\ (label = "create" => IsFree(f, p, Running(f.pid)))
  BY <1>1
<1>3. pc[p] = "read" /\ UNCHANGED <<files, boot, pid, bootId, mine, round, todo, beaten, reboots>>
  BY DEF Read, self
<1>4. ASSUME NEW q \in Procs, label = "create", pc[q] \in Owning \cup {"verify"},
             mine[p] = mine[q] + 1
      PROVE  Higher(mine[q])
  <2> SUFFICES ASSUME Held(q) \in files PROVE FALSE
    BY <1>4 DEF LockInv, FileInv, AtMost
  <2>1. mine[q] \in Nat /\ mine[p] \in Nat /\ Held(q).gen = mine[q] /\ f.gen = mine[q]
    BY <1>1, <1>4 DEF LockInv, TypeOK, Held
  <2>2. f = Held(q)
    BY <2>1 DEF LockInv, UniqueInv
  <2>3. f.state = "held" /\ f.pid = pid[q] /\ f.bootId = bootId[q]
    BY <2>2 DEF Held
  <2>4. Live(q) /\ Live(p) /\ p # q
    BY <1>3, <1>4 DEF Live, Owning
  <2>5. Running(f.pid) /\ f.pid # pid[p]
    BY <2>3, <2>4 DEF Running, LockInv, SelfInv
  <2>6. bootId[q] \in {Unknown, boot} /\ bootId[p] \in {Unknown, boot}
    BY <2>4 DEF LockInv, SelfInv
  <2> QED
    BY <1>2, <1>4, <2>3, <2>5, <2>6 DEF IsFree
<1>5. label \in Pcs /\ label \notin Owning
  BY <1>2 DEF Pcs, Starting, Owning
<1>6. /\ faults' = faults \/ faults' = faults + 1
      /\ faults \in Nat /\ round' \in [Procs -> Nat] /\ todo' \in [Procs -> SUBSET Nat]
  BY <1>1, <1>3 DEF LockInv, TypeOK, Fault
<1>7. faults' \in Nat /\ \A g \in todo'[p] : Higher(g)
  BY <1>3, <1>6 DEF LockInv, RemovalInv
<1>8. Live(p)
  BY <1>3 DEF Live
<1> QED
  BY <1>2, <1>3, <1>4, <1>5, <1>6, <1>7, <1>8, MoveInv

LEMMA VerifyInv ==
  ASSUME LockInv, NEW p \in Procs, Verify(p)
  PROVE  LockInv'
<1>1. pc[p] = "verify" /\ Live(p)
      /\ UNCHANGED <<files, boot, pid, bootId, mine, round, todo, faults, reboots>>
  BY DEF Verify, self, Live
<1>2. mine[p] \in Nat /\ \A f \in files : f.gen \in Nat
  BY DEF LockInv, TypeOK, Record
<1>3. (\E n \in Generations : n > mine[p]) <=> Higher(mine[p])
  BY DEF Generations, Higher
<1>4. todo' \in [Procs -> SUBSET Nat] /\ faults' \in Nat /\ (\A g \in todo'[p] : Higher(g))
      /\ round' \in [Procs -> Nat]
  BY <1>1 DEF LockInv, TypeOK, RemovalInv
<1>5. CASE Higher(mine[p])
  <2>1. At(p, "backoff") /\ UNCHANGED beaten
    BY <1>3, <1>5 DEF Verify
  <2>2. p \in beaten
    BY <1>1, <1>2, <1>5 DEF LockInv, NewsInv, AtMost, Higher
  <2>3. "backoff" \in Pcs /\ "backoff" \notin Owning
    BY DEF Pcs, Starting, Owning
  <2> QED
    BY <1>1, <1>4, <1>5, <2>1, <2>2, <2>3, MoveInv
<1>6. CASE ~Higher(mine[p])
  <2>1. At(p, "collect") /\ beaten' = beaten \ {p}
    BY <1>3, <1>6 DEF Verify
  <2>2. Held(p) \in files /\ AtMost(mine[p]) /\ mine[p] > 0
    BY <1>1, <1>2, <1>6 DEF LockInv, FileInv, AtMost, Higher
  <2> USE DEF LockInv
  <2>3. /\ pc'[p] = "collect" /\ \A q \in Procs : q # p => pc'[q] = pc[q]
        /\ pc' \in [Procs -> Pcs]
    BY <2>1 DEF At, TypeOK, Pcs, Starting, Owning
  <2>4. TypeOK'
    BY <1>1, <2>1, <2>3 DEF TypeOK, Pcs
  <2>5. /\ \A n : (Higher(n)' <=> Higher(n)) /\ (AtLeast(n)' <=> AtLeast(n)) /\ (AtMost(n)' <=> AtMost(n))
        /\ \A n : Exists(n)' <=> Exists(n)
        /\ \A q : Held(q)' = Held(q)
    BY <1>1 DEF Higher, AtLeast, AtMost, Exists, Generations, Held
  <2>6. \A q \in Procs : Live(q)' <=> Live(q)
    BY <1>1, <2>3 DEF Live
  <2>7. UniqueInv' /\ SelfInv'
    BY <1>1, <2>3, <2>6 DEF UniqueInv, SelfInv
  <2>8. RemovalInv' /\ JudgedInv'
    BY <1>1, <2>3, <2>5 DEF RemovalInv, JudgedInv
  <2>9. FileInv'
    BY <1>1, <2>2, <2>3, <2>5 DEF FileInv, Owning
  <2>10. FreeInv'
    BY <1>1, <2>3, <2>5 DEF FreeInv, Owning
  <2>11. NewsInv'
    BY <1>1, <2>1, <2>3, <2>5 DEF NewsInv
  <2> QED
    BY <2>4, <2>7, <2>8, <2>9, <2>10, <2>11
<1> QED
  BY <1>5, <1>6

LEMMA BelowInv ==
  ASSUME LockInv, NEW p \in Procs, NEW n \in Nat, NEW next \in {"owner", "leaving"},
         Below(p, n, next), Live(p), AtLeast(n),
         next = "owner" => pc[p] = "collect"
  PROVE  LockInv'
<1>1. At(p, next) /\ UNCHANGED <<files, boot, pid, bootId, mine, round, beaten, reboots>>
  BY DEF Below, self
<1>2. \A f \in files : f.gen \in Nat
  BY DEF LockInv, TypeOK, Record
<1>3. \A g \in {h \in Generations : h < n} : g \in Nat /\ Higher(g)
  BY <1>2 DEF Generations, AtLeast, Higher
<1>4. /\ todo' \in [Procs -> SUBSET Nat] /\ faults' \in Nat
      /\ \A q \in Procs : q # p => todo'[q] = todo[q]
      /\ \A g \in todo'[p] : Higher(g)
  BY <1>3 DEF Below, Fault, LockInv, TypeOK, RemovalInv
<1>5. next = "owner" => Held(p) \in files /\ AtMost(mine[p]) /\ mine[p] > 0 /\ pc[p] \in Owning
  BY DEF LockInv, FileInv, Owning
<1>6. next \in Pcs /\ (next \in Owning => next = "owner") /\ round' \in [Procs -> Nat]
  BY <1>1 DEF Pcs, Starting, Owning, LockInv, TypeOK
<1> QED
  BY <1>1, <1>4, <1>5, <1>6, MoveInv

LEMMA CollectInv ==
  ASSUME LockInv, NEW p \in Procs, Collect(p)
  PROVE  LockInv'
<1>1. pc[p] = "collect" /\ Below(p, mine[p], "owner") /\ mine[p] \in Nat
  BY DEF Collect, LockInv, TypeOK
<1>2. Live(p) /\ Held(p) \in files /\ Held(p).gen = mine[p]
  BY <1>1 DEF Live, LockInv, FileInv, Owning, Held
<1>3. AtLeast(mine[p])
  BY <1>1, <1>2 DEF AtLeast
<1> QED
  BY <1>1, <1>2, <1>3, BelowInv

LEMMA CollectReleasedInv ==
  ASSUME LockInv, NEW p \in Procs, CollectReleased(p)
  PROVE  LockInv'
<1>1. pc[p] = "marked" /\ Below(p, mine[p] + 1, "leaving") /\ mine[p] + 1 \in Nat
  BY DEF CollectReleased, LockInv, TypeOK
<1>2. Live(p) /\ AtLeast(mine[p] + 1)
  BY <1>1 DEF Live, LockInv, FileInv
<1> QED
  BY <1>1, <1>2, BelowInv

LEMMA ExitInv ==
  ASSUME LockInv, NEW p \in Procs, Exit(p) \/ ReadOwn(p)
  PROVE  LockInv'
<1>1. PICK label \in {"readOwn", "mark", "leaving"} : At(p, label)
  BY DEF Exit, ReadOwn
<1>2. pc[p] \in Owning /\ Live(p)
      /\ UNCHANGED <<files, boot, pid, bootId, mine, round, todo, beaten, faults, reboots>>
  BY DEF Exit, ReadOwn, Owning, Live, self
<1>3. Held(p) \in files /\ AtMost(mine[p]) /\ mine[p] > 0
  BY <1>2 DEF LockInv, FileInv
<1>4. /\ todo' \in [Procs -> SUBSET Nat] /\ faults' \in Nat /\ round' \in [Procs -> Nat]
      /\ \A g \in todo'[p] : Higher(g)
  BY <1>2 DEF LockInv, TypeOK, RemovalInv
<1>5. label \in Pcs
  BY <1>1 DEF Pcs, Owning
<1> QED
  BY <1>1, <1>2, <1>3, <1>4, <1>5, MoveInv

----------------------------------------------------------------------------
(* The steps that start a process or change the directory *)

LEMMA StartInv ==
  ASSUME LockInv, NEW p \in Procs, Start(p)
  PROVE  LockInv'
<1> USE DEF LockInv
<1>1. PICK n \in Pids : (\A q \in Procs : Live(q) => pid[q] # n) /\ pid' = [pid EXCEPT ![p] = n]
  BY DEF Start
<1>2. /\ pc[p] = "off" /\ At(p, "list")
      /\ UNCHANGED <<files, boot, mine, round, todo, beaten, reboots>>
      /\ bootId' = [bootId EXCEPT ![p] = boot] \/ bootId' = bootId
      /\ faults' = faults \/ faults' = faults + 1
  BY DEF Start, Fault
<1>3. /\ pc'[p] = "list" /\ pid'[p] = n
      /\ \A q \in Procs : q # p => pc'[q] = pc[q] /\ pid'[q] = pid[q] /\ bootId'[q] = bootId[q]
      /\ bootId'[p] \in {Unknown, boot}
  BY <1>1, <1>2 DEF At, TypeOK, SelfInv, Live
<1>4. TypeOK'
  <2>1. pc' \in [Procs -> Pcs] /\ pid' \in [Procs -> Pids \cup {NoPid}] /\ bootId' \in [Procs -> Nat]
    BY <1>1, <1>2 DEF TypeOK, At, Pcs, Starting
  <2> QED
    BY <1>2, <2>1 DEF TypeOK, Pcs
<1>5. /\ \A k : (Higher(k)' <=> Higher(k)) /\ (AtLeast(k)' <=> AtLeast(k)) /\ (AtMost(k)' <=> AtMost(k))
      /\ \A k : Exists(k)' <=> Exists(k)
      /\ \A q \in Procs : q # p => Held(q)' = Held(q)
  BY <1>2, <1>3 DEF Higher, AtLeast, AtMost, Exists, Generations, Held
<1>6. Live(p)' /\ ~Live(p) /\ \A q \in Procs : q # p => (Live(q)' <=> Live(q))
  BY <1>2, <1>3 DEF Live
<1>7. UniqueInv'
  BY <1>2 DEF UniqueInv
<1>8. SelfInv'
  BY <1>1, <1>2, <1>3, <1>6 DEF SelfInv
<1>9. RemovalInv' /\ JudgedInv'
  BY <1>2, <1>3, <1>5 DEF RemovalInv, JudgedInv
<1>10. FileInv'
  BY <1>2, <1>3, <1>5 DEF FileInv, Owning
<1>11. FreeInv'
  BY <1>2, <1>3, <1>5 DEF FreeInv, Owning
<1>12. NewsInv'
  BY <1>2, <1>3, <1>5 DEF NewsInv
<1> QED
  BY <1>4, <1>7, <1>8, <1>9, <1>10, <1>11, <1>12

LEMMA ListInv ==
  ASSUME LockInv, NEW p \in Procs, List(p)
  PROVE  LockInv'
<1> USE DEF LockInv
<1>1. PICK n \in Generations \cup {0} :
        /\ Top(n)
        /\ mine' = [mine EXCEPT ![p] = n + 1]
        /\ At(p, IF n = 0 THEN "create" ELSE "read")
  BY DEF List
<1>2. /\ pc[p] = "list" /\ beaten' = beaten \ {p}
      /\ UNCHANGED <<files, boot, pid, bootId, round, todo, faults, reboots>>
  BY DEF List, self
<1>3. \A f \in files : f.gen \in Nat \ {0}
  BY DEF TypeOK, Record
<1>4. n \in Nat /\ AtMost(n) /\ (n # 0 => Exists(n) /\ AtLeast(n))
  BY <1>1, <1>3 DEF Top, AtMost, AtLeast, Exists, Generations
<1>5. PICK label \in {"create", "read"} : At(p, label) /\ (label = "read" => n # 0) /\ (label = "create" => n = 0)
  BY <1>1
<1>6. /\ pc'[p] = label /\ mine'[p] = n + 1
      /\ \A q \in Procs : q # p => pc'[q] = pc[q] /\ mine'[q] = mine[q]
  BY <1>1, <1>5 DEF At, TypeOK
<1>7. TypeOK'
  <2>1. pc' \in [Procs -> Pcs] /\ mine' \in [Procs -> Nat]
    BY <1>1, <1>4, <1>5 DEF At, TypeOK, Pcs, Starting
  <2> QED
    BY <1>2, <2>1 DEF TypeOK, Pcs
<1>8. /\ \A k : (Higher(k)' <=> Higher(k)) /\ (AtLeast(k)' <=> AtLeast(k)) /\ (AtMost(k)' <=> AtMost(k))
      /\ \A k : Exists(k)' <=> Exists(k)
      /\ \A q \in Procs : q # p => Held(q)' = Held(q)
  BY <1>2, <1>6 DEF Higher, AtLeast, AtMost, Exists, Generations, Held
<1>9. \A q \in Procs : Live(q)' <=> Live(q)
  BY <1>2, <1>5, <1>6 DEF Live
<1>10. UniqueInv' /\ SelfInv'
  BY <1>2, <1>9 DEF UniqueInv, SelfInv
<1>11. RemovalInv'
  BY <1>2, <1>5, <1>6, <1>8 DEF RemovalInv
<1>12. JudgedInv'
  <2>1. mine'[p] - 1 = n /\ (pc'[p] = "create" => ~(mine'[p] > 1))
    BY <1>4, <1>5, <1>6
  <2> QED
    BY <1>4, <1>5, <1>6, <1>8, <2>1 DEF JudgedInv
<1>13. FileInv'
  <2>1. mine'[p] > 0 /\ pc'[p] \notin Owning \cup {"verify", "marked"}
    BY <1>4, <1>5, <1>6 DEF Owning
  <2> QED
    BY <1>2, <1>6, <1>8, <2>1 DEF FileInv
<1>14. FreeInv'
  <2>1. ASSUME NEW q \in Procs, pc'[p] = "create", pc'[q] \in Owning \cup {"verify"},
               mine'[p] = mine'[q] + 1
        PROVE  FALSE
    <3>1. q # p /\ mine[q] > 0 /\ mine[q] \in Nat
      BY <1>5, <1>6, <2>1 DEF FileInv, Owning, TypeOK
    <3> QED
      BY <1>4, <1>5, <1>6, <2>1, <3>1
  <2>2. pc'[p] \notin Owning \cup {"verify"}
    BY <1>5, <1>6 DEF Owning
  <2> QED
    BY <1>6, <1>8, <2>1, <2>2 DEF FreeInv
<1>15. NewsInv'
  <2>1. mine'[p] - 1 = n
    BY <1>4, <1>6
  <2> QED
    BY <1>2, <1>4, <1>5, <1>6, <1>8, <2>1 DEF NewsInv
<1> QED
  BY <1>7, <1>10, <1>11, <1>12, <1>13, <1>14, <1>15

\* A new file keeps every bound from below.
LEMMA CreateKeeps ==
  ASSUME NEW f, files' = files \cup {f}
  PROVE  /\ \A k : (AtLeast(k) => AtLeast(k)') /\ (Higher(k) => Higher(k)')
         /\ \A k : AtMost(k)' => AtMost(k)
         /\ \A k : AtMost(k) /\ f.gen <= k => AtMost(k)'
BY DEF AtLeast, Higher, AtMost

LEMMA CreateInv ==
  ASSUME LockInv, NEW p \in Procs, Create(p)
  PROVE  LockInv'
<1> USE DEF LockInv
<1>1. /\ pc[p] = "create" /\ ~Exists(mine[p]) /\ files' = files \cup {Held(p)}
      /\ beaten' = beaten \cup {q \in Procs \ {p} : pc[q] \in Starting}
      /\ UNCHANGED <<boot, pid, bootId, mine, round, todo, faults, reboots>>
  BY DEF Create, CreateGeneration, self
<1>2. /\ pc'[p] = "verify" /\ \A q \in Procs : q # p => pc'[q] = pc[q]
      /\ pc' \in [Procs -> Pcs]
  BY DEF Create, At, TypeOK, Pcs, Starting
<1>3. /\ Held(p).gen = mine[p] /\ mine[p] \in Nat /\ mine[p] > 0 /\ Live(p)
      /\ \A f \in files : f.gen \in Nat /\ f.gen # mine[p]
  BY <1>1 DEF Held, TypeOK, Record, FileInv, Exists, Generations, Live
<1>4. Held(p) \in Record
  BY <1>3 DEF Held, Record, TypeOK, SelfInv
<1>5. TypeOK'
  BY <1>1, <1>2, <1>4 DEF TypeOK, Pcs
<1>6. \A k : (AtLeast(k) => AtLeast(k)') /\ (Higher(k) => Higher(k)')
  BY <1>1, CreateKeeps
<1>7. \A k : AtMost(k) /\ mine[p] <= k => AtMost(k)'
  BY <1>1, <1>3, CreateKeeps
<1>8. \A q : Held(q)' = Held(q)
  BY <1>1 DEF Held
<1>9. \A q \in Procs : Live(q)' <=> Live(q)
  BY <1>1, <1>2 DEF Live
<1>10. UniqueInv'
  BY <1>1, <1>3 DEF UniqueInv
<1>11. SelfInv'
  BY <1>1, <1>9 DEF SelfInv
<1>12. RemovalInv'
  BY <1>1, <1>2, <1>6 DEF RemovalInv
<1>13. ASSUME NEW q \in Procs, pc[q] \in Owning
       PROVE  mine[p] <= mine[q]
  <2>1. AtMost(mine[q]) /\ mine[q] > 0 /\ mine[q] \in Nat
    BY <1>13 DEF FileInv, TypeOK
  <2>2. CASE mine[p] > 1
    <3>1. PICK f \in files : f.gen >= mine[p] - 1
      BY <1>1, <2>2 DEF JudgedInv, AtLeast
    <3>2. mine[p] - 1 <= mine[q]
      BY <1>3, <2>1, <3>1 DEF AtMost
    <3>3. mine[p] # mine[q] + 1
      BY <1>1, <1>3, <1>13, <2>1 DEF FreeInv, AtMost, Higher
    <3> QED
      BY <1>3, <2>1, <3>2, <3>3
  <2> QED
    BY <1>3, <2>1, <2>2
<1>14. FileInv'
  <2>1. ASSUME NEW q \in Procs, pc'[q] \in Owning PROVE (Held(q) \in files /\ AtMost(mine[q]))'
    <3>1. q # p /\ pc[q] \in Owning
      BY <1>2, <2>1 DEF Owning
    <3>2. Held(q) \in files /\ AtMost(mine[q]) /\ mine[p] <= mine[q]
      BY <1>13, <3>1 DEF FileInv
    <3> QED
      BY <1>1, <1>7, <1>8, <3>2
  <2>2. Held(p)' \in files'
    BY <1>1, <1>8
  <2>3. \A q \in Procs : q # p => (pc'[q] = "verify" => Held(q)' \in files' \/ Higher(mine[q])')
    BY <1>1, <1>2, <1>6, <1>8 DEF FileInv
  <2>4. \A q \in Procs : pc'[q] = "marked" => AtLeast(mine[q] + 1)'
    BY <1>1, <1>2, <1>6 DEF FileInv
  <2>5. \A q \in Procs : pc'[q] \in Owning \cup {"read", "create", "verify", "backoff", "marked"}
          => mine'[q] > 0
    BY <1>1, <1>2, <1>3 DEF FileInv
  <2> QED
    BY <2>1, <2>2, <2>3, <2>4, <2>5 DEF FileInv
<1>15. JudgedInv'
  BY <1>1, <1>2, <1>6 DEF JudgedInv
<1>16. FreeInv'
  <2>1. SUFFICES ASSUME NEW r \in Procs, NEW q \in Procs, pc'[r] = "create",
                        pc'[q] \in Owning \cup {"verify"}, mine[r] = mine[q] + 1
                 PROVE  Higher(mine[q])'
    BY <1>1 DEF FreeInv
  <2>2. pc[r] = "create" /\ r # p
    BY <1>2, <2>1
  <2>3. CASE q # p
    BY <1>1, <1>2, <1>6, <2>1, <2>2, <2>3 DEF FreeInv
  <2>4. CASE q = p
    <3>1. mine[r] > 1 /\ mine[r] - 1 = mine[p] /\ mine'[q] = mine[p]
      BY <1>1, <1>3, <2>1, <2>4
    <3>2. PICK f \in files : f.gen >= mine[p]
      BY <2>2, <3>1 DEF JudgedInv, AtLeast
    <3>3. Higher(mine[p])
      BY <1>3, <3>2 DEF Higher
    <3> QED
      BY <1>6, <3>1, <3>3
  <2> QED
    BY <2>3, <2>4
<1>17. NewsInv'
  <2>1. \A q \in Procs : q # p /\ q \notin beaten' => pc[q] \notin Starting
    BY <1>1
  <2>2. p \notin beaten' => AtMost(mine[p])'
    <3> SUFFICES ASSUME p \notin beaten' PROVE AtMost(mine[p])'
      OBVIOUS
    <3>1. AtMost(mine[p] - 1)
      BY <1>1 DEF NewsInv
    <3>2. AtMost(mine[p])
      BY <1>3, <3>1 DEF AtMost
    <3> QED
      BY <1>1, <1>3, <1>7, <3>2
  <2> QED
    BY <1>1, <1>2, <2>1, <2>2 DEF NewsInv, Starting
<1> QED
  BY <1>5, <1>10, <1>11, <1>12, <1>14, <1>15, <1>16, <1>17

LEMMA MarkInv ==
  ASSUME LockInv, NEW p \in Procs, Mark(p)
  PROVE  LockInv'
<1> USE DEF LockInv
<1>1. /\ pc[p] = "mark" /\ Live(p)
      /\ UNCHANGED <<boot, pid, bootId, mine, round, todo, faults, reboots>>
  BY DEF Mark, self, Live
<1>2. CASE Exists(mine[p] + 1)
  <2>1. At(p, "leaving") /\ UNCHANGED <<files, beaten>>
    BY <1>2 DEF Mark
  <2>2. /\ todo' \in [Procs -> SUBSET Nat] /\ faults' \in Nat /\ round' \in [Procs -> Nat]
        /\ (\A g \in todo'[p] : Higher(g)) /\ "leaving" \in Pcs /\ "leaving" \notin Owning
    BY <1>1 DEF TypeOK, RemovalInv, Pcs, Owning
  <2> QED
    BY <1>1, <2>1, <2>2, MoveInv
<1>3. CASE ~Exists(mine[p] + 1)
  <2>1. /\ files' = files \cup {Marker(p)} /\ At(p, "marked")
        /\ beaten' = beaten \cup {q \in Procs \ {p} : pc[q] \in Starting}
    BY <1>3 DEF Mark, CreateGeneration
  <2>2. /\ pc'[p] = "marked" /\ \A q \in Procs : q # p => pc'[q] = pc[q]
        /\ pc' \in [Procs -> Pcs]
    BY <2>1 DEF At, TypeOK, Pcs
  <2>3. /\ Marker(p).gen = mine[p] + 1 /\ mine[p] \in Nat /\ mine[p] > 0
        /\ \A f \in files : f.gen # mine[p] + 1
    BY <1>1, <1>3 DEF Marker, Held, TypeOK, FileInv, Owning, Exists, Generations
  <2>4. Marker(p) \in Record
    <3>1. pid[p] \in Pids /\ Unknown \in Nat /\ mine[p] + 1 \in Nat \ {0}
      BY <1>1, <2>3 DEF TypeOK, SelfInv, Unknown
    <3> QED
      BY <3>1 DEF Record, Marker
  <2>5. TypeOK'
    BY <1>1, <2>1, <2>2, <2>4 DEF TypeOK, Pcs
  <2>6. \A k : (AtLeast(k) => AtLeast(k)') /\ (Higher(k) => Higher(k)')
    BY <2>1, CreateKeeps
  <2>7. \A q : Held(q)' = Held(q)
    BY <1>1 DEF Held
  <2>8. \A q \in Procs : Live(q)' <=> Live(q)
    BY <1>1, <2>2 DEF Live
  <2>9. UniqueInv'
    BY <2>1, <2>3 DEF UniqueInv
  <2>10. SelfInv'
    BY <1>1, <2>8 DEF SelfInv
  <2>11. RemovalInv' /\ JudgedInv'
    BY <1>1, <2>2, <2>6 DEF RemovalInv, JudgedInv
  <2>12. \A q \in Procs : pc'[q] \notin Owning
    BY <1>1, <2>2, InvOneOwner DEF OneOwner, Owning
  <2>13. AtLeast(mine[p] + 1)'
    <3>1. Marker(p) \in files' /\ Marker(p).gen >= mine[p] + 1 /\ mine'[p] = mine[p]
      BY <1>1, <2>1, <2>3
    <3> QED
      BY <3>1 DEF AtLeast
  <2>14. FileInv'
    <3>1. \A q \in Procs : q # p => (pc'[q] = "verify" => Held(q)' \in files' \/ Higher(mine[q])')
      BY <1>1, <2>1, <2>2, <2>6, <2>7 DEF FileInv
    <3>2. \A q \in Procs : pc'[q] = "marked" => AtLeast(mine[q] + 1)'
      BY <1>1, <2>2, <2>6, <2>13 DEF FileInv
    <3>3. \A q \in Procs : pc'[q] \in Owning \cup {"read", "create", "verify", "backoff", "marked"}
            => mine'[q] > 0
      BY <1>1, <2>2, <2>3 DEF FileInv
    <3> QED
      BY <2>2, <2>12, <3>1, <3>2, <3>3 DEF FileInv
  <2>15. FreeInv'
    BY <1>1, <2>2, <2>6 DEF FreeInv, Owning
  <2>16. NewsInv'
    <3>1. \A q \in Procs : q # p /\ q \notin beaten' => pc[q] \notin Starting
      BY <2>1
    <3> QED
      BY <2>2, <3>1 DEF NewsInv, Starting
  <2> QED
    BY <2>5, <2>9, <2>10, <2>11, <2>14, <2>15, <2>16
<1> QED
  BY <1>2, <1>3

\* A step that removes a file below another one, and otherwise leaves files and processes but p alone.
LEMMA RemoveInv ==
  ASSUME LockInv, NEW p \in Procs, NEW n \in Nat, Higher(n), Remove(n), NEW label \in Pcs,
         At(p, label), label = pc[p] \/ (pc[p] = "backoff" /\ label \in {"list", "leaving"}),
         Live(p), UNCHANGED <<boot, pid, bootId, mine, beaten, reboots>>,
         round' \in [Procs -> Nat], todo' \in [Procs -> SUBSET Nat],
         \A q \in Procs : todo'[q] \subseteq todo[q]
  PROVE  LockInv'
<1> USE DEF LockInv
<1>1. /\ pc'[p] = label /\ \A q \in Procs : q # p => pc'[q] = pc[q]
      /\ pc' \in [Procs -> Pcs]
  BY DEF At, TypeOK, Pcs
<1>2. /\ files' \subseteq files /\ faults' \in Nat
      /\ \A f \in files : f.gen # n => f \in files'
      /\ \A k \in Int : (AtLeast(k) => AtLeast(k)') /\ (Higher(k) => Higher(k)')
      /\ \A k \in Int : AtMost(k) => AtMost(k)'
  BY RemoveKeeps
<1>3. TypeOK'
  BY <1>1, <1>2 DEF TypeOK, Pcs
<1>4. \A q \in Procs : Held(q)' = Held(q) /\ mine[q] \in Nat /\ Held(q).gen = mine[q]
  BY DEF Held, TypeOK
<1>5. \A q \in Procs : (Live(q)' <=> Live(q)) /\ (pc'[q] = pc[q] \/ pc'[q] \in {"list", "leaving"})
  BY <1>1 DEF Live
<1>6. UniqueInv'
  BY <1>2 DEF UniqueInv
<1>7. SelfInv'
  BY <1>5 DEF SelfInv
<1>8. RemovalInv'
  <2>1. \A q \in Procs : todo[q] \subseteq Nat
    BY DEF TypeOK
  <2>2. \A q \in Procs : \A g \in todo'[q] : Higher(g)'
    BY <1>2, <2>1 DEF RemovalInv
  <2>3. \A q \in Procs : pc'[q] = "backoff" => Higher(mine[q])'
    BY <1>2, <1>4, <1>5 DEF RemovalInv
  <2> QED
    BY <2>2, <2>3 DEF RemovalInv
<1>9. \A k \in Int : AtMost(k) => n # k
  <2> SUFFICES ASSUME NEW k \in Int, AtMost(k), n = k PROVE FALSE
    OBVIOUS
  <2>1. PICK f \in files : f.gen > k
    BY DEF Higher
  <2> QED
    BY <2>1 DEF AtMost, TypeOK, Record
<1>10. FileInv'
  <2>1. \A q \in Procs : pc'[q] \in Owning => Held(q)' \in files' /\ AtMost(mine[q])'
    <3> SUFFICES ASSUME NEW q \in Procs, pc'[q] \in Owning
                 PROVE  Held(q)' \in files' /\ AtMost(mine[q])'
      OBVIOUS
    <3>1. pc[q] \in Owning
      BY <1>5 DEF Owning
    <3>2. Held(q) \in files /\ AtMost(mine[q])
      BY <3>1 DEF FileInv
    <3> QED
      BY <1>2, <1>4, <1>9, <3>2
  <2>2. \A q \in Procs : pc'[q] = "verify" => Held(q)' \in files' \/ Higher(mine[q])'
    <3> SUFFICES ASSUME NEW q \in Procs, pc'[q] = "verify"
                 PROVE  Held(q)' \in files' \/ Higher(mine[q])'
      OBVIOUS
    <3>1. pc[q] = "verify" /\ (Held(q) \in files \/ Higher(mine[q]))
      BY <1>5 DEF FileInv
    <3>2. CASE Higher(mine[q])
      BY <1>2, <1>4, <3>2
    <3>3. CASE Held(q) \in files /\ mine[q] # n
      BY <1>2, <1>4, <3>3
    <3>4. CASE mine[q] = n
      BY <1>2, <1>4, <3>4
    <3> QED
      BY <3>1, <3>2, <3>3, <3>4
  <2>3. \A q \in Procs : pc'[q] = "marked" => AtLeast(mine[q] + 1)'
    BY <1>2, <1>4, <1>5 DEF FileInv
  <2>4. \A q \in Procs : pc'[q] \in Owning \cup {"read", "create", "verify", "backoff", "marked"}
          => mine'[q] > 0
    BY <1>5 DEF FileInv, Owning
  <2> QED
    BY <2>1, <2>2, <2>3, <2>4 DEF FileInv
<1>11. JudgedInv'
  BY <1>2, <1>4, <1>5 DEF JudgedInv
<1>12. FreeInv'
  BY <1>2, <1>4, <1>5 DEF FreeInv, Owning
<1>13. NewsInv'
  <2> SUFFICES ASSUME NEW q \in Procs, q \notin beaten
               PROVE  /\ pc'[q] = "read" => AtMost(mine[q] - 1)' /\ Exists(mine[q] - 1)'
                      /\ pc'[q] = "create" => AtMost(mine[q] - 1)'
                      /\ pc'[q] = "verify" => AtMost(mine[q])'
                      /\ pc'[q] # "backoff"
    BY DEF NewsInv
  <2>1. pc'[q] # "backoff" /\ (pc'[q] \in {"read", "create", "verify"} => pc[q] = pc'[q])
    BY <1>5 DEF NewsInv
  <2>2. (pc'[q] \in {"read", "create"} => AtMost(mine[q] - 1)') /\ (pc'[q] = "verify" => AtMost(mine[q])')
    BY <1>2, <1>4, <2>1 DEF NewsInv
  <2>3. pc'[q] = "read" => Exists(mine[q] - 1)'
    <3> SUFFICES ASSUME pc'[q] = "read" PROVE Exists(mine[q] - 1)'
      OBVIOUS
    <3>1. AtMost(mine[q] - 1) /\ Exists(mine[q] - 1)
      BY <2>1 DEF NewsInv
    <3>2. PICK f \in files : f.gen = mine[q] - 1
      BY <3>1 DEF Exists, Generations
    <3>3. f \in files'
      BY <1>2, <1>4, <1>9, <3>1, <3>2
    <3> QED
      BY <3>2, <3>3 DEF Exists, Generations
  <2> QED
    BY <2>1, <2>2, <2>3
<1> QED
  BY <1>3, <1>6, <1>7, <1>8, <1>10, <1>11, <1>12, <1>13

LEMMA BackoffInv ==
  ASSUME LockInv, NEW p \in Procs, Backoff(p)
  PROVE  LockInv'
<1> DEFINE label == IF round[p] + 1 < MaxRounds THEN "list" ELSE "leaving"
<1>1. label \in Pcs /\ label \in {"list", "leaving"}
  BY DEF Pcs, Starting
<1>2. /\ pc[p] = "backoff" /\ Remove(mine[p]) /\ At(p, label) /\ round' \in [Procs -> Nat]
      /\ UNCHANGED <<boot, pid, bootId, mine, todo, beaten, reboots>>
  BY DEF Backoff, NextRound, self, LockInv, TypeOK
<1>3. mine[p] \in Nat /\ Higher(mine[p]) /\ Live(p) /\ todo' \in [Procs -> SUBSET Nat]
  BY <1>2 DEF LockInv, TypeOK, RemovalInv, Live
<1> HIDE DEF label
<1> QED
  BY <1>1, <1>2, <1>3, RemoveInv

LEMMA UnlinkInv ==
  ASSUME LockInv, NEW p \in Procs, Unlink(p)
  PROVE  LockInv'
<1>1. PICK g \in todo[p] : Remove(g) /\ todo' = [todo EXCEPT ![p] = @ \ {g}]
  BY DEF Unlink
<1>2. UNCHANGED <<boot, pc, pid, bootId, mine, round, beaten, reboots>>
  BY DEF Unlink, self
<1>3. g \in Nat /\ Higher(g) /\ Live(p)
  BY DEF LockInv, TypeOK, RemovalInv, SelfInv
<1>4. At(p, pc[p]) /\ pc[p] \in Pcs
  BY <1>2 DEF At, LockInv, TypeOK, Pcs
<1>5. /\ todo' \in [Procs -> SUBSET Nat] /\ round' \in [Procs -> Nat]
      /\ \A q \in Procs : todo'[q] \subseteq todo[q]
  BY <1>1, <1>2 DEF LockInv, TypeOK
<1> QED
  BY <1>1, <1>2, <1>3, <1>4, <1>5, RemoveInv

----------------------------------------------------------------------------
(* Ends, crashes and reboots *)

LEMMA EndedFrame ==
  ASSUME TypeOK, NEW P \in SUBSET Procs, Ended(P)
  PROVE  /\ pc' \in [Procs -> Pcs] /\ pid' \in [Procs -> Pids \cup {NoPid}]
         /\ bootId' \in [Procs -> Nat] /\ mine' \in [Procs -> Nat] /\ round' \in [Procs -> Nat]
         /\ todo' \in [Procs -> SUBSET Nat] /\ beaten' \subseteq Procs
         /\ \A q \in P : pc'[q] = "ended" /\ bootId'[q] = Unknown /\ todo'[q] = {}
         /\ \A q \in Procs \ P :
              pc'[q] = pc[q] /\ pid'[q] = pid[q] /\ bootId'[q] = bootId[q] /\ mine'[q] = mine[q]
                /\ todo'[q] = todo[q] /\ (q \in beaten' <=> q \in beaten)
<1>1. Unknown \in Nat /\ "ended" \in Pcs
  BY DEF Unknown, Pcs
<1>2. /\ pc' \in [Procs -> Pcs] /\ pid' \in [Procs -> Pids \cup {NoPid}]
      /\ bootId' \in [Procs -> Nat] /\ mine' \in [Procs -> Nat]
  BY <1>1 DEF Ended, TypeOK, Pcs
<1>3. round' \in [Procs -> Nat] /\ todo' \in [Procs -> SUBSET Nat] /\ beaten' \subseteq Procs
  BY DEF Ended, TypeOK
<1> QED
  BY <1>2, <1>3 DEF Ended

LEMMA EndInv ==
  ASSUME LockInv, NEW p \in Procs, Ended({p}), UNCHANGED <<files, boot, reboots>>, faults' \in Nat
  PROVE  LockInv'
<1> USE DEF LockInv
<1>1. /\ pc'[p] = "ended" /\ bootId'[p] = Unknown /\ todo'[p] = {}
      /\ \A q \in Procs : q # p =>
           pc'[q] = pc[q] /\ pid'[q] = pid[q] /\ bootId'[q] = bootId[q] /\ mine'[q] = mine[q]
             /\ todo'[q] = todo[q] /\ (q \in beaten' <=> q \in beaten)
  BY EndedFrame
<1>2. TypeOK'
  BY EndedFrame DEF TypeOK, Pcs
<1>3. /\ \A k : (Higher(k)' <=> Higher(k)) /\ (AtLeast(k)' <=> AtLeast(k)) /\ (AtMost(k)' <=> AtMost(k))
      /\ \A k : Exists(k)' <=> Exists(k)
      /\ \A q \in Procs : q # p => Held(q)' = Held(q)
  BY <1>1 DEF Higher, AtLeast, AtMost, Exists, Generations, Held
<1>4. ~Live(p)' /\ \A q \in Procs : q # p => (Live(q)' <=> Live(q))
  BY <1>1 DEF Live
<1>5. UniqueInv' /\ SelfInv'
  BY <1>1, <1>4 DEF UniqueInv, SelfInv
<1>6. RemovalInv' /\ JudgedInv'
  BY <1>1, <1>3 DEF RemovalInv, JudgedInv
<1>7. FileInv'
  BY <1>1, <1>3 DEF FileInv, Owning
<1>8. FreeInv'
  BY <1>1, <1>3 DEF FreeInv, Owning
<1>9. NewsInv'
  BY <1>1, <1>3 DEF NewsInv
<1> QED
  BY <1>2, <1>5, <1>6, <1>7, <1>8, <1>9

LEMMA RebootInv ==
  ASSUME LockInv, Reboot
  PROVE  LockInv'
<1> USE DEF LockInv
<1> DEFINE P == {p \in Procs : Live(p)}
<1>1. Ended(P) /\ P \in SUBSET Procs /\ boot' = boot + 1 /\ reboots' = reboots + 1 /\ faults' = faults
  BY DEF Reboot
<1>2. PICK kept \in SUBSET files, bad \in SUBSET files :
        bad \subseteq kept /\ files' = (kept \ bad) \cup {Corrupt(f) : f \in bad}
  BY DEF Reboot
<1>3. \A f \in files : Corrupt(f) \in Record /\ Corrupt(f).gen = f.gen
  BY DEF Corrupt, TypeOK, Record
<1>4. TypeOK'
  <2>1. files' \subseteq Record
    BY <1>2, <1>3 DEF TypeOK
  <2>2. boot' \in Nat \ {0} /\ reboots' \in Nat
    BY <1>1 DEF TypeOK
  <2> HIDE DEF P
  <2> QED
    BY <1>1, <2>1, <2>2, EndedFrame DEF TypeOK, Pcs
<1>5. \A q \in Procs : pc'[q] \in {"off", "ended"} /\ bootId'[q] = Unknown /\ todo'[q] = {}
  <2>1. \A q \in Procs \ P : pc[q] \in {"off", "ended"} /\ bootId[q] = Unknown /\ todo[q] = {}
    BY DEF SelfInv, Live, TypeOK
  <2> HIDE DEF P
  <2> QED
    BY <1>1, <2>1, EndedFrame
<1>6. UniqueInv'
  <2> SUFFICES ASSUME NEW f \in files', NEW g \in files', f.gen = g.gen PROVE f = g
    BY DEF UniqueInv
  <2>1. PICK f0 \in kept : f0.gen = f.gen /\ f = IF f0 \in bad THEN Corrupt(f0) ELSE f0
    BY <1>2, <1>3
  <2>2. PICK g0 \in kept : g0.gen = g.gen /\ g = IF g0 \in bad THEN Corrupt(g0) ELSE g0
    BY <1>2, <1>3
  <2>3. f0 = g0
    BY <2>1, <2>2 DEF UniqueInv
  <2> QED
    BY <2>1, <2>2, <2>3
<1>7. SelfInv' /\ RemovalInv' /\ JudgedInv' /\ FreeInv'
  BY <1>5 DEF SelfInv, Live, RemovalInv, JudgedInv, FreeInv
<1>8. FileInv' /\ NewsInv'
  BY <1>5 DEF FileInv, NewsInv, Owning
<1> QED
  BY <1>4, <1>6, <1>7, <1>8

----------------------------------------------------------------------------
(* Theorems *)

LEMMA StepInv ==
  ASSUME LockInv, NEW p \in Procs, Step(p)
  PROVE  LockInv'
<1>1. CASE List(p)
  BY <1>1, ListInv
<1>2. CASE ReadVanished(p) \/ CreateLost(p)
  BY <1>2, RoundInv DEF ReadVanished, CreateLost, LockInv, TypeOK
<1>3. CASE Read(p)
  BY <1>3, ReadInv
<1>4. CASE Create(p)
  BY <1>4, CreateInv
<1>5. CASE Verify(p)
  BY <1>5, VerifyInv
<1>6. CASE Backoff(p)
  BY <1>6, BackoffInv
<1>7. CASE Collect(p) \/ CollectReleased(p)
  BY <1>7, CollectInv, CollectReleasedInv
<1>8. CASE Unlink(p)
  BY <1>8, UnlinkInv
<1>9. CASE ReadOwn(p)
  BY <1>9, ExitInv
<1>10. CASE Mark(p)
  BY <1>10, MarkInv
<1>11. CASE End(p)
  BY <1>11, EndInv DEF End, LockInv, TypeOK
<1> QED
  BY <1>1, <1>2, <1>3, <1>4, <1>5, <1>6, <1>7, <1>8, <1>9, <1>10, <1>11 DEF Step

LEMMA NextLockInv == LockInv /\ [Next]_vars => LockInv'
<1> SUFFICES ASSUME LockInv, [Next]_vars PROVE LockInv'
  OBVIOUS
<1>1. ASSUME NEW p \in Procs, Start(p) \/ Step(p) \/ ReadFails(p) \/ Exit(p) PROVE LockInv'
  <2>1. ReadFails(p) => LockInv'
    BY RoundInv DEF ReadFails, Fault, LockInv, TypeOK
  <2> QED
    BY <1>1, <2>1, StartInv, StepInv, ExitInv
<1>2. ASSUME NEW p \in Procs, Crash(p) PROVE LockInv'
  <2>1. Ended({p}) /\ UNCHANGED <<files, boot, reboots>> /\ faults' \in Nat
    BY <1>2 DEF Crash, Fault, LockInv, TypeOK
  <2> QED
    BY <2>1, EndInv
<1>3. CASE Reboot
  BY <1>3, RebootInv
<1>4. CASE UNCHANGED vars
  <2>1. UNCHANGED <<files, boot, pc, pid, bootId, mine, round, todo, beaten, faults, reboots>>
    BY <1>4 DEF vars
  <2>2. TypeOK' /\ UniqueInv' /\ SelfInv' /\ RemovalInv'
    BY <2>1 DEF LockInv, TypeOK, UniqueInv, SelfInv, RemovalInv, Live, Higher
  <2>3. FileInv' /\ JudgedInv' /\ FreeInv' /\ NewsInv'
    BY <2>1 DEF LockInv, FileInv, JudgedInv, FreeInv, NewsInv, Higher, AtLeast, AtMost, Exists,
                Generations, Held
  <2> QED
    BY <2>2, <2>3 DEF LockInv
<1> QED
  BY <1>1, <1>2, <1>3, <1>4 DEF Next

\* The inductive invariant of the generation files.
THEOREM LockInvHolds == Spec => []LockInv
  BY InitLockInv, NextLockInv, PTL DEF Spec

\* acquireInstanceLock: at most one process at a time is between a verified acquisition and the
\* marker that gives the lock up, for any number of starts and any interleaving of their calls.
THEOREM OneOwnerHolds == Spec => []OneOwner
  BY LockInvHolds, InvOneOwner, PTL

\* removeQuietly and removeGenerationsBelow: no call takes the highest generation away.
THEOREM TopNeverRemovedHolds == Spec => TopNeverRemoved
<1>1. ASSUME LockInv, Next, reboots' = reboots, NEW f \in files
      PROVE  \E g \in files' : g.gen >= f.gen
  <2>1. f.gen \in Nat /\ f.gen >= f.gen /\ AtLeast(f.gen)
    BY <1>1 DEF LockInv, TypeOK, Record, AtLeast
  <2>2. ASSUME NEW n \in Nat, Higher(n), Remove(n) PROVE \E g \in files' : g.gen >= f.gen
    BY <1>1, <2>1, <2>2, RemoveKeeps DEF AtLeast, LockInv
  <2>3. ASSUME NEW p \in Procs, Backoff(p) PROVE \E g \in files' : g.gen >= f.gen
    <3>1. Remove(mine[p]) /\ mine[p] \in Nat /\ Higher(mine[p])
      BY <1>1, <2>3 DEF Backoff, LockInv, TypeOK, RemovalInv
    <3> QED
      BY <2>2, <3>1
  <2>4. ASSUME NEW p \in Procs, Unlink(p) PROVE \E g \in files' : g.gen >= f.gen
    <3>1. PICK g \in todo[p] : Remove(g)
      BY <2>4 DEF Unlink
    <3>2. g \in Nat /\ Higher(g)
      BY <1>1 DEF LockInv, TypeOK, RemovalInv
    <3> QED
      BY <2>2, <3>1, <3>2
  <2>5. ASSUME NEW p \in Procs, Step(p), ~Backoff(p), ~Unlink(p) PROVE f \in files'
    <3>1. files' = files \/ \E g : files' = files \cup {g}
      BY <2>5 DEF Step, List, ReadVanished, Read, Create, CreateLost, Verify, Collect, ReadOwn, Mark,
                  CollectReleased, End, Below, CreateGeneration
    <3> QED
      BY <3>1
  <2>6. ASSUME NEW p \in Procs, Start(p) \/ ReadFails(p) \/ Exit(p) \/ Crash(p) PROVE f \in files'
    BY <2>6 DEF Start, ReadFails, Exit, Crash
  <2>7. ~Reboot
    BY <1>1 DEF Reboot, LockInv, TypeOK
  <2> QED
    BY <1>1, <2>1, <2>3, <2>4, <2>5, <2>6, <2>7 DEF Next
<1>2. LockInv /\ [Next]_vars => [reboots' = reboots => \A f \in files : \E g \in files' : g.gen >= f.gen]_vars
  BY <1>1
<1> QED
  BY LockInvHolds, <1>2, PTL DEF Spec, TopNeverRemoved

\* acquireInstanceLock: a round is lost only when another process created a generation after the
\* listing the round began with, or when the file the round judges is there and cannot be read.
THEOREM LostRoundHolds == Spec => LostRoundMeansProgress
<1> DEFINE Unreadable(p) == pc[p] = "read" /\ Exists(mine[p] - 1) /\ faults' > faults
<1>1. ASSUME LockInv, Next, NEW p \in Procs, round'[p] > round[p] PROVE p \in beaten \/ Unreadable(p)
  <2>1. \A q \in Procs : round[q] \in Nat /\ mine[q] \in Nat
    BY <1>1 DEF LockInv, TypeOK
  <2>2. ReadVanished(p) \/ ReadFails(p) \/ CreateLost(p) \/ Backoff(p)
    <3>1. ASSUME UNCHANGED round PROVE FALSE
      BY <1>1, <2>1, <3>1
    <3>2. ASSUME NEW P \in SUBSET Procs, Ended(P) PROVE FALSE
      BY <1>1, <2>1, <3>2 DEF Ended
    <3>3. ASSUME NEW q \in Procs, NextRound(q) PROVE q = p
      BY <1>1, <2>1, <3>3 DEF NextRound, LockInv, TypeOK
    <3>4. ASSUME NEW q \in Procs, Step(q) PROVE ReadVanished(p) \/ CreateLost(p) \/ Backoff(p)
      <4>1. ReadVanished(q) \/ CreateLost(q) \/ Backoff(q)
        BY <3>1, <3>2, <3>4 DEF Step, List, Read, Create, Verify, Collect, Unlink, ReadOwn, Mark,
                               CollectReleased, End, Below
      <4>2. NextRound(q)
        BY <4>1 DEF ReadVanished, CreateLost, Backoff
      <4> QED
        BY <3>3, <4>1, <4>2
    <3>7. ASSUME NEW q \in Procs, ReadFails(q) PROVE ReadFails(p)
      BY <3>3, <3>7 DEF ReadFails
    <3>5. ASSUME NEW q \in Procs, Start(q) \/ Exit(q) \/ Crash(q) PROVE FALSE
      BY <3>1, <3>2, <3>5 DEF Start, Exit, Crash
    <3>6. ~Reboot
      BY <3>2 DEF Reboot
    <3> QED
      BY <1>1, <3>4, <3>5, <3>6, <3>7 DEF Next
  <2>3. CASE ReadVanished(p)
    BY <1>1, <2>3 DEF ReadVanished, LockInv, NewsInv
  <2>6. CASE ReadFails(p)
    BY <1>1, <2>6 DEF ReadFails, Fault, LockInv, TypeOK
  <2>4. CASE CreateLost(p)
    <3>1. pc[p] = "create" /\ \E f \in files : f.gen = mine[p]
      BY <2>4 DEF CreateLost, Exists, Generations
    <3>2. ~AtMost(mine[p] - 1)
      BY <2>1, <3>1 DEF AtMost
    <3> QED
      BY <1>1, <3>1, <3>2 DEF LockInv, NewsInv
  <2>5. CASE Backoff(p)
    BY <1>1, <2>5 DEF Backoff, LockInv, NewsInv
  <2> QED
    BY <2>2, <2>3, <2>4, <2>5, <2>6
<1>2. LockInv /\ [Next]_vars =>
        [\A p \in Procs :
           round'[p] > round[p] =>
             \/ p \in beaten
             \/ pc[p] = "read" /\ Exists(mine[p] - 1) /\ faults' > faults]_vars
  BY <1>1
<1> QED
  BY LockInvHolds, <1>2, PTL DEF Spec, LostRoundMeansProgress

\* Every reachable state of the lock is well typed.
THEOREM TypeCorrect == Spec => []TypeOK
<1>1. LockInv => TypeOK
  BY DEF LockInv
<1> QED
  BY <1>1, LockInvHolds, PTL

=============================================================================
