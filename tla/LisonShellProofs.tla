-------------------------- MODULE LisonShellProofs --------------------------
(***************************************************************************)
(* The safety properties of LisonShell, for all scripts and programs and   *)
(* for any number of processes and pipes.                                  *)
(***************************************************************************)
EXTENDS LisonShell, FiniteSetTheorems, TLAPS

Places == {"unborn", "line", "step", "forked", "wait", "born", "runs", "zombie", "gone"}

(* A record with the fields of a process; what no argument needs is left   *)
(* open.                                                                   *)
IsProcess(r) ==
    r \in [at : Places, parent : Nat, line : Nat, items : {r.items}, pos : {r.pos},
           code : {r.code}, last : {r.last}, kids : {r.kids}, holds : {r.holds},
           left : {r.left}, chld : BOOLEAN, int : BOOLEAN, back : {r.back}, exit : {r.exit}]

TypeInv ==
    /\ script \in Scripts
    /\ proc = [p \in Pid |-> proc[p]]
    /\ \A p \in Pid : IsProcess(proc[p])

Born(p) == proc[p].at # "unborn"

(* Processes are numbered in the order of birth, so parents come before    *)
(* children; a parent is alive, since its end orphans its children.        *)
Numbered == \E n \in Nat : \A p \in Pid : Born(p) <=> p <= n

Kinship ==
    \A p \in Pid :
        /\ proc[p].parent < p
        /\ proc[p].parent # 0 => Born(p) /\ Alive(proc[p].parent)
        /\ proc[p].int => Alive(p)

(* A zombie has a parent, and SIGCHLD is pending there.                    *)
Awaited ==
    \A q \in Pid : proc[q].at = "zombie" => proc[q].parent # 0 /\ proc[proc[q].parent].chld

TreeInv == Numbered /\ Kinship /\ Awaited

(* Without background lines a shell has no children but, between fork and  *)
(* the return of wait, the one it forked.                                  *)
AloneAt(p) ==
    /\ proc[p].at \in {"line", "step", "born", "runs"} => Child(p) = {}
    /\ proc[p].at \in {"forked", "wait"} => Child(p) \subseteq {proc[p].last}

RealAt(p) ==
    proc[p].at = "step" /\ proc[p].code > 0 =>
        \E q \in Pid : q = proc[p].last /\ proc[q].at = "gone" /\ proc[q].exit = proc[p].code

AloneInv == NoBackground => \A p \in Pid : AloneAt(p)
RealInv  == NoBackground => \A p \in Pid : RealAt(p)

IInv == TypeInv /\ TreeInv /\ AloneInv /\ RealInv
-----------------------------------------------------------------------------
(* What a step does to the processes but the one that takes it: they stay  *)
(* as they are, get or lose a signal, or are reaped; one is born; and none *)
(* gets a child.                                                           *)
Stays(q) ==
    /\ proc'[q].last = proc[q].last /\ proc'[q].code = proc[q].code
    /\ proc'[q].exit = proc[q].exit
    /\ \/ proc'[q].at = proc[q].at
       \/ proc[q].at = "zombie" /\ proc'[q].at = "gone"

Newborn(q) ==
    /\ Child(q)' = {}
    /\ proc'[q].at = "born" \/ (proc'[q].at = "step" /\ proc'[q].code = NoCode)

Frame(p) ==
    /\ \A q \in Pid \ {p} : Born(q) => Stays(q)
    /\ \A q \in Pid \ {p} : ~Born(q) => ~Born(q)' \/ Newborn(q)
    /\ \A q \in Pid \ {p} : Child(q)' \subseteq Child(q)

LEMMA PidFacts == \A p \in Pid : p \in Nat /\ p # 0
  BY ShellAssumption DEF Pid

\* A pid not yet used is used next.
LEMMA FreshIsNew ==
    ASSUME Numbered, Fresh \in Pid
    PROVE  ~Born(Fresh) /\ \A p \in Pid : Born(p) <=> p <= Fresh - 1
  <1>1. PICK n \in Nat : \A p \in Pid : Born(p) <=> p <= n
    BY DEF Numbered
  <1>2. PICK m \in Nat : m = IF n <= MaxPid THEN n ELSE MaxPid
    BY <1>1, ShellAssumption
  <1>3. PICK B : B = {p \in Pid : Born(p)}
    OBVIOUS
  <1>4. B = 1 .. m
    BY <1>1, <1>2, <1>3, ShellAssumption DEF Pid
  <1>5. Cardinality(B) = m
    <2>1. Cardinality(1 .. m) = m
      BY FS_Interval
    <2>. QED
      BY <1>2, <1>4, <2>1
  <1>6. Fresh = 1 + Cardinality(B)
    BY <1>3, Zenon DEF Fresh, Born
  <1>. QED
    BY <1>1, <1>2, <1>5, <1>6, ShellAssumption DEF Pid
LEMMA TypeFacts ==
    ASSUME TypeInv, TreeInv
    PROVE  \A p \in Pid :
              /\ p \in Nat /\ p # 0 /\ proc[p].at \in Places
              /\ proc[p].parent \in Nat /\ proc[p].parent < p /\ proc[p].parent # p
              /\ proc[p].parent # 0 => /\ proc[p].parent \in Pid /\ Alive(proc[p].parent)
                                       /\ Born(proc[p].parent) /\ Born(p)
              /\ proc[p].chld \in BOOLEAN /\ proc[p].int \in BOOLEAN /\ proc[p].line \in Nat
              /\ proc[p].int => Alive(p)
  <1>1. \A p \in Pid :
           /\ proc[p].at \in Places /\ proc[p].parent \in Nat /\ proc[p].line \in Nat
           /\ proc[p].chld \in BOOLEAN /\ proc[p].int \in BOOLEAN
    BY DEF TypeInv, IsProcess
  <1>. QED
    BY <1>1, PidFacts, ShellAssumption DEF TreeInv, Kinship, Pid, Alive, Born

(* The shell that goes on, or a program: a step in which a process changes *)
(* nothing that others see.                                                *)
Changes(p, r) ==
    /\ IsProcess(r) /\ r.at \notin Ended \cup {"unborn"}
    /\ r.parent = proc[p].parent /\ r.chld = proc[p].chld /\ r.int = proc[p].int

LEMMA ChangeKeeps ==
    ASSUME TypeInv, TreeInv, NEW p \in Pid, Alive(p), NEW r, Changes(p, r),
           proc' = [proc EXCEPT ![p] = r], UNCHANGED script
    PROVE  TypeInv' /\ TreeInv' /\ Frame(p) /\ proc'[p] = r /\ Child(p)' = Child(p)
  <1>1. /\ proc'[p] = r /\ proc' = [q \in Pid |-> proc'[q]]
        /\ \A q \in Pid \ {p} : proc'[q] = proc[q]
    BY DEF TypeInv
  <1>2. TypeInv'
    BY <1>1 DEF TypeInv, Changes
  <1>3. \A q \in Pid :
           /\ proc'[q].parent = proc[q].parent /\ proc'[q].chld = proc[q].chld
           /\ proc'[q].int = proc[q].int /\ (Alive(q)' <=> Alive(q))
           /\ (Born(q)' <=> Born(q))
           /\ proc'[q].at \in {"gone", "unborn"} <=> proc[q].at \in {"gone", "unborn"}
           /\ proc'[q].at = "zombie" <=> proc[q].at = "zombie"
    BY <1>1 DEF Changes, Alive, Born, Ended
  <1>4. \A q \in Pid : proc[q].parent # 0 => proc[q].parent \in Pid
    BY TypeFacts
  <1>5. Numbered' /\ Awaited'
    BY <1>3, <1>4 DEF TreeInv, Numbered, Awaited
  <1>6. Kinship'
    BY <1>3, <1>4 DEF TreeInv, Kinship
  <1>7. Frame(p)
    BY <1>1, <1>3 DEF Frame, Stays, Child, Born
  <1>. QED
    BY <1>1, <1>2, <1>3, <1>5, <1>6, <1>7 DEF TreeInv, Child

LEMMA ForkKeeps ==
    ASSUME TypeInv, TreeInv, NEW p \in Pid, Alive(p), NEW r, Changes(p, r),
           NEW c, IsProcess(c), c.at = "born" \/ (c.at = "step" /\ c.code = NoCode),
           Fork(p, r, c), UNCHANGED script, NEW n, n = Fresh
    PROVE  /\ TypeInv' /\ TreeInv' /\ Frame(p) /\ proc'[p] = r
           /\ n \in Pid \ {p} /\ ~Born(n) /\ Child(p)' = Child(p) \cup {n} /\ Child(n)' = {}
           /\ proc'[n] = [c EXCEPT !.parent = p, !.chld = FALSE, !.int = FALSE]
  <1>0. n \in Pid /\ ~Born(n) /\ (\A q \in Pid : Born(q) <=> q <= n - 1)
    BY FreshIsNew DEF Fork, TreeInv
  <1>1. Born(p) /\ n # p /\ p < n /\ p \in Nat /\ n \in Nat
    BY <1>0, PidFacts DEF Alive, Born
  <1>2. PICK e : e = [c EXCEPT !.parent = p, !.chld = FALSE, !.int = FALSE]
    OBVIOUS
  <1>3. /\ IsProcess(e) /\ e.at = c.at /\ e.parent = p /\ ~e.chld /\ ~e.int /\ e.code = c.code
    BY <1>1, <1>2 DEF IsProcess
  <1>4. proc' = [proc EXCEPT ![p] = r, ![n] = e]
    BY <1>2 DEF Fork
  <1>5. /\ proc'[p] = r /\ proc'[n] = e /\ proc' = [q \in Pid |-> proc'[q]]
        /\ \A q \in Pid \ {p, n} : proc'[q] = proc[q]
    BY <1>0, <1>1, <1>4 DEF TypeInv
  <1>6. TypeInv'
    BY <1>3, <1>5 DEF TypeInv, Changes
  <1>7. \A q \in Pid \ {n} :
           /\ proc'[q].parent = proc[q].parent /\ proc'[q].chld = proc[q].chld
           /\ proc'[q].int = proc[q].int /\ (Alive(q)' <=> Alive(q))
           /\ (Born(q)' <=> Born(q))
           /\ proc'[q].at \in {"gone", "unborn"} <=> proc[q].at \in {"gone", "unborn"}
           /\ proc'[q].at = "zombie" <=> proc[q].at = "zombie"
    BY <1>5 DEF Changes, Alive, Born, Ended
  <1>8. \A q \in Pid : proc[q].parent # 0 =>
           proc[q].parent \in Pid /\ proc[q].parent # n
    BY <1>0, TypeFacts DEF Born
  <1>9. Numbered'
    <2>1. Born(n)' /\ n \in Nat
      BY <1>1, <1>3, <1>5 DEF Born
    <2>2. \A q \in Pid : Born(q)' <=> q <= n
      BY <1>0, <1>1, <1>7, <2>1, PidFacts
    <2>. QED
      BY <2>1, <2>2 DEF Numbered
  <1>10. Awaited'
    BY <1>3, <1>5, <1>7, <1>8 DEF TreeInv, Awaited, Ended
  <1>11. Kinship'
    BY <1>1, <1>3, <1>5, <1>7, <1>8 DEF TreeInv, Kinship, Born, Alive, Ended
  <1>12. Child(n)' = {}
    BY <1>1, <1>3, <1>5, <1>7, <1>8, PidFacts DEF Child
  <1>13. \A q \in Pid \ {p, n} : Child(q)' = Child(q)
    BY <1>3, <1>5, <1>7, <1>0 DEF Child, Born
  <1>14. Frame(p)
    <2>1. Newborn(n) /\ \A q \in Pid \ {p, n} : Stays(q) /\ (Born(q)' <=> Born(q))
      BY <1>3, <1>5, <1>12 DEF Newborn, Stays, Born
    <2>. QED
      BY <1>0, <1>12, <1>13, <2>1 DEF Frame
  <1>15. Child(p)' = Child(p) \cup {n}
    BY <1>0, <1>1, <1>3, <1>5, <1>7 DEF Child, Born, Ended
  <1>. QED
    BY <1>0, <1>1, <1>2, <1>5, <1>6, <1>9, <1>10, <1>11, <1>12, <1>14, <1>15 DEF TreeInv

(* Signals change nothing else, and only the living get them.              *)
Signalled(f) ==
    \A q \in Pid :
        /\ IsProcess(f[q]) /\ f[q].at = proc[q].at /\ f[q].parent = proc[q].parent
        /\ f[q].last = proc[q].last /\ f[q].code = proc[q].code /\ f[q].exit = proc[q].exit
        /\ f[q].chld = proc[q].chld /\ (f[q].int => Alive(q))

LEMMA SignalKeeps ==
    ASSUME TypeInv, TreeInv, Signalled(proc'), proc' = [q \in Pid |-> proc'[q]], UNCHANGED script
    PROVE  TypeInv' /\ TreeInv' /\ \A q \in Pid : Stays(q) /\ proc'[q].at = proc[q].at
                                                  /\ Child(q)' = Child(q)
  <1>1. TypeInv'
    BY DEF TypeInv, Signalled
  <1>2. \A q \in Pid : (Born(q)' <=> Born(q)) /\ (Alive(q)' <=> Alive(q))
    BY DEF Signalled, Born, Alive
  <1>3. Numbered' /\ Awaited'
    BY <1>2, TypeFacts DEF TreeInv, Numbered, Awaited, Signalled
  <1>4. Kinship'
    BY <1>2, TypeFacts DEF Kinship, Signalled
  <1>. QED
    BY <1>1, <1>3, <1>4 DEF TreeInv, Stays, Child, Signalled

LEMMA OrphanFacts ==
    ASSUME NEW r, IsProcess(r)
    PROVE  /\ IsProcess(Orphan(r)) /\ Orphan(r).parent = 0
           /\ Orphan(r).at = IF r.at = "zombie" THEN "gone" ELSE r.at
           /\ Orphan(r).chld = r.chld /\ Orphan(r).int = r.int /\ Orphan(r).last = r.last
           /\ Orphan(r).code = r.code /\ Orphan(r).exit = r.exit
  <1>1. PICK a \in Places : a = IF r.at = "zombie" THEN "gone" ELSE r.at
    BY DEF IsProcess, Places
  <1>2. PICK s : s = [r EXCEPT !.parent = 0, !.at = a]
    OBVIOUS
  <1>3. Orphan(r) = s
    BY <1>1, <1>2 DEF Orphan
  <1>4. /\ IsProcess(s) /\ s.parent = 0 /\ s.at = a /\ s.chld = r.chld /\ s.int = r.int
        /\ s.last = r.last /\ s.code = r.code /\ s.exit = r.exit
    BY <1>1, <1>2 DEF IsProcess
  <1>. QED
    BY <1>1, <1>3, <1>4

LEMMA EndKeeps ==
    ASSUME TypeInv, TreeInv, NEW p \in Pid, Alive(p), NEW f, Signalled(f), NEW s,
           proc' = AfterEnd(f, p, s), UNCHANGED script
    PROVE  TypeInv' /\ TreeInv' /\ Frame(p) /\ proc'[p].at \in Ended
  <1>1. /\ p \in Nat /\ Born(p) /\ proc[p].parent \in Nat /\ proc[p].parent # p
        /\ f[p].parent = proc[p].parent
    BY TypeFacts DEF Alive, Born, Signalled
  <1>2. proc' = [q \in Pid |-> proc'[q]]
    BY DEF AfterEnd
  <1>3. /\ IsProcess(proc'[p]) /\ proc'[p].parent = proc[p].parent
        /\ ~proc'[p].chld /\ ~proc'[p].int
        /\ proc'[p].at = IF proc[p].parent # 0 THEN "zombie" ELSE "gone"
    <2>1. PICK r : r = f[p]
      OBVIOUS
    <2>2. proc'[p] = Dead(r, s)
      BY <2>1 DEF AfterEnd
    <2>3. IsProcess(r) /\ r.parent = proc[p].parent
      BY <1>1, <2>1 DEF Signalled
    <2>. QED
      BY <2>2, <2>3 DEF IsProcess, Places, Dead
  <1>4. ASSUME NEW q \in Pid, q # p
        PROVE  /\ IsProcess(proc'[q]) /\ proc'[q].int = f[q].int
               /\ proc'[q].last = f[q].last /\ proc'[q].code = f[q].code
               /\ proc'[q].exit = f[q].exit
               /\ proc'[q].parent = IF proc[q].parent = p THEN 0 ELSE proc[q].parent
               /\ q = proc[p].parent \/ proc[q].chld => proc'[q].chld
               /\ proc'[q].at = IF proc[q].parent = p /\ proc[q].at = "zombie" THEN "gone"
                                ELSE proc[q].at
    <2>1. PICK r : r = f[q]
      OBVIOUS
    <2>2. /\ IsProcess(r) /\ r.chld = proc[q].chld /\ r.parent = proc[q].parent
          /\ r.at = proc[q].at
      BY <2>1 DEF Signalled
    <2>3. CASE q = proc[p].parent
      <3>1. proc[q].parent # p
        BY <1>1, <2>3, TypeFacts
      <3>2. proc'[q] = [r EXCEPT !.chld = TRUE]
        BY <1>1, <1>4, <2>1, <2>3 DEF AfterEnd
      <3>. QED
        BY <2>1, <2>2, <3>1, <3>2 DEF IsProcess
    <2>4. CASE q # proc[p].parent /\ proc[q].parent = p
      <3>1. proc'[q] = Orphan(r)
        BY <1>1, <1>4, <2>1, <2>2, <2>4 DEF AfterEnd
      <3>. QED
        BY <2>1, <2>2, <2>4, <3>1, OrphanFacts
    <2>5. CASE q # proc[p].parent /\ proc[q].parent # p
      <3>1. proc'[q] = r
        BY <1>1, <1>4, <2>1, <2>2, <2>5 DEF AfterEnd
      <3>. QED
        BY <2>1, <2>2, <2>5, <3>1
    <2>. QED
      BY <2>3, <2>4, <2>5
  <1>5. TypeInv'
    BY <1>2, <1>3, <1>4 DEF TypeInv
  <1>6. \A q \in Pid : (Born(q)' <=> Born(q)) /\ (q # p => (Alive(q)' <=> Alive(q)))
    BY <1>1, <1>3, <1>4 DEF Born, Alive, Ended
  <1>7. \A q \in Pid : /\ proc'[q].parent = 0 \/ proc'[q].parent = proc[q].parent
                       /\ proc'[q].parent # p
    BY <1>1, <1>3, <1>4, TypeFacts
  <1>8. Numbered'
    BY <1>6 DEF TreeInv, Numbered
  <1>9. Kinship'
    BY <1>3, <1>4, <1>6, <1>7, TypeFacts DEF Kinship, Signalled
  <1>10. Awaited'
    <2>1. ASSUME NEW q \in Pid, proc'[q].at = "zombie"
          PROVE  proc'[q].parent # 0 /\ proc'[proc'[q].parent].chld
      <3>1. CASE q = p
        <4>1. proc[p].parent \in Pid \ {p}
          BY <1>3, <2>1, <3>1, TypeFacts
        <4>2. proc'[proc[p].parent].chld
          BY <1>4, <4>1
        <4>3. proc[p].parent # 0
          BY <4>1, PidFacts
        <4>. QED
          BY <1>3, <3>1, <4>2, <4>3
      <3>2. CASE q # p
        <4>1. proc[q].at = "zombie" /\ proc[q].parent # p /\ proc'[q].parent = proc[q].parent
          BY <1>4, <2>1, <3>2
        <4>2. proc[q].parent \in Pid /\ proc[proc[q].parent].chld
          BY <4>1, TypeFacts DEF TreeInv, Awaited
        <4>. QED
          BY <1>4, <4>1, <4>2, TypeFacts DEF TreeInv, Awaited
      <3>. QED
        BY <3>1, <3>2
    <2>. QED
      BY <2>1 DEF Awaited
  <1>11. \A q \in Pid \ {p} : Child(q)' \subseteq Child(q)
    <2>1. ASSUME NEW q \in Pid \ {p}, NEW k \in Child(q)' PROVE k \in Child(q)
      <3>1. k \in Pid /\ proc[k].parent = q /\ proc'[k].at \notin {"unborn", "gone"}
        BY <1>7, <2>1, PidFacts DEF Child
      <3>2. proc[k].at \notin {"unborn", "gone"}
        BY <1>4, <3>1 DEF Alive, Ended
      <3>. QED
        BY <3>1, <3>2 DEF Child
    <2>. QED
      BY <2>1
  <1>12. \A q \in Pid \ {p} : Stays(q)
    BY <1>4 DEF Stays, Signalled
  <1>. QED
    BY <1>3, <1>5, <1>6, <1>8, <1>9, <1>10, <1>11, <1>12 DEF TreeInv, Frame, Ended

(* A process takes the zombies in R from among its children.               *)
LEMMA ReapKeeps ==
    ASSUME TypeInv, TreeInv, NEW p \in Pid, Alive(p), NEW R \in SUBSET Zombies(p), NEW r,
           IsProcess(r), r.at \notin Ended \cup {"unborn"},
           r.parent = proc[p].parent, r.int = proc[p].int,
           r.chld = proc[p].chld \/ R = Zombies(p),
           proc' = [q \in Pid |-> IF q = p THEN r
                        ELSE IF q \in R THEN [proc[q] EXCEPT !.at = "gone"] ELSE proc[q]],
           UNCHANGED script
    PROVE  /\ TypeInv' /\ TreeInv' /\ Frame(p) /\ proc'[p] = r /\ Child(p)' = Child(p) \ R
           /\ \A q \in R : q # p /\ proc'[q].at = "gone" /\ proc'[q].exit = proc[q].exit
  <1>1. \A q \in R : q \in Pid \ {p} /\ proc[q].at = "zombie" /\ proc[q].parent = p
    BY TypeFacts DEF Zombies, Child
  <1>2. proc' = [q \in Pid |-> proc'[q]] /\ proc'[p] = r
    OBVIOUS
  <1>3. ASSUME NEW q \in Pid, q # p
        PROVE  /\ IsProcess(proc'[q]) /\ proc'[q].parent = proc[q].parent
               /\ proc'[q].chld = proc[q].chld /\ proc'[q].int = proc[q].int
               /\ Stays(q) /\ proc'[q].at = IF q \in R THEN "gone" ELSE proc[q].at
    <2>1. IsProcess(proc[q])
      BY DEF TypeInv
    <2>2. CASE q \in R
      <3>1. proc'[q] = [proc[q] EXCEPT !.at = "gone"]
        BY <1>3, <2>2
      <3>. QED
        BY <1>1, <2>1, <2>2, <3>1 DEF IsProcess, Places, Stays
    <2>3. CASE q \notin R
      <3>1. proc'[q] = proc[q]
        BY <1>3, <2>3
      <3>. QED
        BY <2>1, <2>3, <3>1 DEF Stays
    <2>. QED
      BY <2>2, <2>3
  <1>4. TypeInv'
    BY <1>2, <1>3 DEF TypeInv
  <1>5. \A q \in Pid : (Born(q)' <=> Born(q)) /\ (Alive(q)' <=> Alive(q))
    BY <1>1, <1>2, <1>3 DEF Born, Alive, Ended
  <1>6. \A q \in Pid : proc'[q].parent = proc[q].parent /\ proc'[q].int = proc[q].int
    BY <1>2, <1>3
  <1>7. Numbered' /\ Kinship'
    BY <1>5, <1>6, TypeFacts DEF TreeInv, Numbered, Kinship
  <1>8. Awaited'
    <2>1. ASSUME NEW q \in Pid, proc'[q].at = "zombie"
          PROVE  proc'[q].parent # 0 /\ proc'[proc'[q].parent].chld
      <3>1. q # p /\ q \notin R /\ proc[q].at = "zombie"
        BY <1>1, <1>2, <1>3, <2>1 DEF Ended
      <3>2. proc[q].parent # 0 /\ proc[q].parent \in Pid /\ proc[proc[q].parent].chld
        BY <3>1, TypeFacts DEF TreeInv, Awaited
      <3>3. proc[q].parent = p => q \in Zombies(p)
        BY <3>1 DEF Zombies, Child
      <3>. QED
        BY <1>2, <1>3, <1>6, <3>1, <3>2, <3>3
    <2>. QED
      BY <2>1 DEF Awaited
  <1>9. \A q \in Pid \ {p} : Child(q)' \subseteq Child(q)
    BY <1>2, <1>3, <1>5, <1>6 DEF Child, Alive, Born, Ended
  <1>10. Child(p)' = Child(p) \ R
    BY <1>1, <1>2, <1>3, <1>6, TypeFacts DEF Child
  <1>. QED
    BY <1>1, <1>2, <1>3, <1>4, <1>5, <1>7, <1>8, <1>9, <1>10 DEF TreeInv, Frame, Stays

-----------------------------------------------------------------------------
(* A step keeps what holds of the others, so that only the process that    *)
(* takes it is left to look at.                                            *)
LEMMA OthersKeep ==
    ASSUME IInv, NEW p \in Pid, Alive(p), Frame(p), TypeInv', TreeInv', UNCHANGED script,
           NoBackground => AloneAt(p)' /\ RealAt(p)'
    PROVE  IInv'
  <1>1. NoBackground' <=> NoBackground
    BY DEF NoBackground
  <1>2. ASSUME NoBackground, NEW q \in Pid PROVE AloneAt(q)' /\ RealAt(q)'
    <2>1. CASE q # p /\ ~Born(q)
      <3>1. ~Born(q)' \/ Newborn(q)
        BY <2>1 DEF Frame
      <3>. QED
        BY <3>1 DEF Newborn, Born, AloneAt, RealAt, NoCode
    <2>2. CASE q # p /\ Born(q)
      <3>1. Stays(q) /\ Child(q)' \subseteq Child(q) /\ AloneAt(q) /\ RealAt(q)
        BY <1>2, <2>2 DEF Frame, IInv, AloneInv, RealInv
      <3>2. AloneAt(q)'
        BY <3>1 DEF AloneAt, Stays
      <3>3. \A z \in Pid : proc[z].at = "gone" => Stays(z)
        BY DEF Frame, Alive, Ended, Born
      <3>4. RealAt(q)'
        BY <3>1, <3>3 DEF RealAt, Stays
      <3>. QED
        BY <3>2, <3>4
    <2>. QED
      BY <1>2, <2>1, <2>2
  <1>. QED
    BY <1>1, <1>2 DEF IInv, AloneInv, RealInv

\* The same for what a process does by itself.
LEMMA ChangeSafe ==
    ASSUME IInv, NEW p \in Pid, Alive(p), NEW r, Changes(p, r),
           proc' = [proc EXCEPT ![p] = r], UNCHANGED script,
           NoBackground /\ r.at \in {"line", "step", "born", "runs"} => Child(p) = {},
           NoBackground /\ r.at \in {"forked", "wait"} => Child(p) \subseteq {r.last},
           NoBackground /\ r.at = "step" /\ r.code > 0 =>
                proc[p].at = "step" /\ r.last = proc[p].last /\ r.code = proc[p].code
    PROVE  IInv'
  <1>1. TypeInv' /\ TreeInv' /\ Frame(p) /\ proc'[p] = r /\ Child(p)' = Child(p)
    BY ChangeKeeps DEF IInv
  <1>2. NoBackground => AloneAt(p)'
    BY <1>1 DEF AloneAt
  <1>3. ASSUME NoBackground PROVE RealAt(p)'
    <2>1. \A z \in Pid : proc[z].at = "gone" => Stays(z)
      BY <1>1 DEF Frame, Alive, Ended, Born
    <2>. QED
      BY <1>1, <1>3, <2>1 DEF IInv, RealInv, RealAt, Stays
  <1>. QED
    BY <1>1, <1>2, <1>3, OthersKeep

LEMMA EndSafe ==
    ASSUME IInv, NEW p \in Pid, Alive(p), NEW f, Signalled(f), NEW s,
           proc' = AfterEnd(f, p, s), UNCHANGED script
    PROVE  IInv'
  <1>1. TypeInv' /\ TreeInv' /\ Frame(p) /\ proc'[p].at \in Ended
    BY EndKeeps DEF IInv
  <1>2. AloneAt(p)' /\ RealAt(p)'
    BY <1>1 DEF AloneAt, RealAt, Ended
  <1>. QED
    BY <1>1, <1>2, OthersKeep

LEMMA SignalSafe ==
    ASSUME IInv, Signalled(proc'), proc' = [q \in Pid |-> proc'[q]], UNCHANGED script
    PROVE  IInv'
  <1>1. /\ TypeInv' /\ TreeInv'
        /\ \A q \in Pid : Stays(q) /\ proc'[q].at = proc[q].at /\ Child(q)' = Child(q)
    BY SignalKeeps DEF IInv
  <1>2. \A q \in Pid : (AloneAt(q) => AloneAt(q)') /\ (RealAt(q) => RealAt(q)')
    BY <1>1 DEF AloneAt, RealAt, Stays
  <1>3. NoBackground' <=> NoBackground
    BY DEF NoBackground
  <1>. QED
    BY <1>1, <1>2, <1>3 DEF IInv, AloneInv, RealInv

LEMMA NoSignal == TypeInv /\ TreeInv => Signalled(proc)
  BY TypeFacts DEF Signalled, TypeInv

LEMMA EndAlone ==
    ASSUME IInv, NEW p \in Pid, Alive(p), NEW s, End(p, s), UNCHANGED script
    PROVE  IInv'
  BY EndSafe, NoSignal DEF IInv, End

-----------------------------------------------------------------------------
LEMMA InitSafe == Init => IInv
  <1> SUFFICES ASSUME Init PROVE IInv
    OBVIOUS
  <1>1. IsProcess(Unborn) /\ IsProcess([Unborn EXCEPT !.at = "line"])
    BY DEF IsProcess, Unborn, Places
  <1>2. TypeInv
    BY <1>1 DEF Init, TypeInv
  <1>3. \A p \in Pid :
           /\ proc[p].at = (IF p = Shell THEN "line" ELSE "unborn")
           /\ proc[p].parent = 0 /\ ~proc[p].int
    BY DEF Init, Unborn
  <1>4. \A p \in Pid : Born(p) <=> p <= 1
    BY <1>3, ShellAssumption DEF Born, Shell, Pid
  <1>5. TreeInv
    BY <1>3, <1>4, PidFacts DEF TreeInv, Numbered, Kinship, Awaited
  <1>6. \A p \in Pid : Child(p) = {} /\ proc[p].at # "step"
    BY <1>3, PidFacts DEF Child
  <1>. QED
    BY <1>2, <1>3, <1>5, <1>6 DEF IInv, AloneInv, RealInv, AloneAt, RealAt

LEMMA ReadLineSafe == ASSUME IInv, NEW p \in Pid, ReadLine(p) PROVE IInv'
  <1>0. /\ proc[p].at = "line" /\ proc[p].line \in Nat /\ Alive(p) /\ IsProcess(proc[p])
        /\ proc[p].line < Len(script) /\ UNCHANGED script
    BY TypeFacts DEF IInv, TypeInv, ReadLine, Alive, Ended
  <1>1. PICK items : items = Items(script[proc[p].line + 1])
    OBVIOUS
  <1>2. PICK read :
           \E holds : /\ read = [proc[p] EXCEPT !.line = @ + 1, !.holds = holds]
                      /\ holds = proc[p].holds \cup
                            (((pipes + 1) .. (pipes + Cardinality(Pipelines(items)))) \X {"r", "w"})
    OBVIOUS
  <1>3. PICK runs :
           \E more : /\ runs = [read EXCEPT !.at = "step", !.items = more, !.pos = 1,
                                            !.code = NoCode]
                     /\ more = WithPipes(items, pipes)
    OBVIOUS
  <1>4. IF items = <<>> THEN proc' = [proc EXCEPT ![p] = read]
        ELSE IF Background(items) THEN Fork(p, read, [runs EXCEPT !.back = TRUE])
        ELSE proc' = [proc EXCEPT ![p] = runs]
    BY <1>1, <1>2, <1>3, Zenon DEF ReadLine
  <1>5. /\ IsProcess(read) /\ read.at = "line" /\ read.parent = proc[p].parent
        /\ read.chld = proc[p].chld /\ read.int = proc[p].int
    <2>1. PICK line \in Nat : \E holds :
             read = [proc[p] EXCEPT !.line = line, !.holds = holds]
      <3>1. proc[p].line + 1 \in Nat
        BY <1>0
      <3>. QED
        BY <1>2, <3>1, Zenon
    <2>. QED
      BY <1>0, <2>1 DEF IsProcess
  <1>6. /\ IsProcess(runs) /\ runs.at = "step" /\ runs.code = NoCode
        /\ runs.parent = proc[p].parent /\ runs.chld = proc[p].chld /\ runs.int = proc[p].int
    BY <1>3, <1>5 DEF IsProcess, Places
  <1>7. Changes(p, read) /\ Changes(p, runs)
    BY <1>5, <1>6 DEF Changes, Ended
  <1>8. NoBackground => Child(p) = {} /\ ~Background(items)
    <2>1. Len(script) \in Nat
      BY ShellAssumption DEF IInv, TypeInv
    <2>2. proc[p].line + 1 \in 1 .. Len(script)
      BY <1>0, <2>1
    <2>3. NoBackground => ~Background(items)
      BY <1>1, <2>2 DEF NoBackground
    <2>. QED
      BY <1>0, <2>3 DEF IInv, AloneInv, AloneAt
  <1>9. CASE items = <<>>
    BY <1>0, <1>4, <1>5, <1>9, <1>7, <1>8, ChangeSafe
  <1>10. CASE items # <<>> /\ ~Background(items)
    BY <1>0, <1>4, <1>10, <1>6, <1>7, <1>8, ChangeSafe DEF NoCode
  <1>11. CASE items # <<>> /\ Background(items)
    <2>1. PICK c : c = [runs EXCEPT !.back = TRUE]
      OBVIOUS
    <2>2. IsProcess(c) /\ c.at = "step" /\ c.code = NoCode
      BY <1>6, <2>1 DEF IsProcess
    <2>3. TypeInv' /\ TreeInv' /\ Frame(p)
      BY <1>0, <1>4, <1>11, <1>7, <2>1, <2>2, ForkKeeps DEF IInv
    <2>. QED
      BY <1>0, <1>11, <1>8, <2>3, OthersKeep
  <1>. QED
    BY <1>9, <1>10, <1>11

LEMMA DecideSafe ==
    ASSUME IInv, NEW p \in Pid, Decide(p) \/ SequenceOver(p) PROVE IInv'
  <1>0. /\ proc[p].at = "step" /\ Alive(p) /\ IsProcess(proc[p]) /\ UNCHANGED script
        /\ NoBackground => Child(p) = {}
    BY DEF IInv, TypeInv, Decide, SequenceOver, AtItem, Alive, Ended, AloneInv, AloneAt
  <1>1. CASE Decide(p)
    <2>1. PICK n : proc' = [proc EXCEPT ![p].pos = n]
      BY <1>1 DEF Decide
    <2>2. PICK r : r = [proc[p] EXCEPT !.pos = n]
      OBVIOUS
    <2>3. /\ IsProcess(r) /\ r.at = "step" /\ r.parent = proc[p].parent
          /\ r.chld = proc[p].chld /\ r.int = proc[p].int
          /\ r.last = proc[p].last /\ r.code = proc[p].code
      BY <1>0, <2>2 DEF IsProcess
    <2>4. Changes(p, r) /\ proc' = [proc EXCEPT ![p] = r]
      BY <2>1, <2>2, <2>3 DEF Changes, Ended
    <2>. QED
      BY <1>0, <2>3, <2>4, ChangeSafe
  <1>2. CASE SequenceOver(p)
    <2>1. PICK r : r = [proc[p] EXCEPT !.at = "line"]
      OBVIOUS
    <2>2. /\ IsProcess(r) /\ r.at = "line" /\ r.parent = proc[p].parent
          /\ r.chld = proc[p].chld /\ r.int = proc[p].int
      BY <1>0, <2>1 DEF IsProcess, Places
    <2>3. Changes(p, r)
      BY <2>2 DEF Changes, Ended
    <2>4. End(p, 0) \/ proc' = [proc EXCEPT ![p] = r]
      BY <1>2, <2>1 DEF SequenceOver
    <2>. QED
      BY <1>0, <2>2, <2>3, <2>4, ChangeSafe, EndAlone
  <1>. QED
    BY <1>1, <1>2

LEMMA RunSafe == ASSUME IInv, NEW p \in Pid, Run(p) PROVE IInv'
  <1>0. /\ proc[p].at = "step" /\ Alive(p) /\ IsProcess(proc[p]) /\ UNCHANGED script
        /\ NoBackground => Child(p) = {}
    BY DEF IInv, TypeInv, Run, AtItem, Alive, Ended, AloneInv, AloneAt
  <1>1. PICK n, r, c : /\ n = Fresh
                       /\ r = [proc[p] EXCEPT !.at = "forked", !.last = n]
                       /\ c = [proc[p] EXCEPT !.at = "born"]
    OBVIOUS
  <1>2. Fork(p, r, c)
    BY <1>1, Zenon DEF Run
  <1>3. /\ IsProcess(r) /\ r.at = "forked" /\ r.last = n /\ r.parent = proc[p].parent
        /\ r.chld = proc[p].chld /\ r.int = proc[p].int
        /\ IsProcess(c) /\ c.at = "born"
    BY <1>0, <1>1 DEF IsProcess, Places
  <1>4. Changes(p, r)
    BY <1>3 DEF Changes, Ended
  <1>5. TypeInv' /\ TreeInv' /\ Frame(p) /\ proc'[p] = r /\ Child(p)' = Child(p) \cup {n}
    <2>1. TypeInv /\ TreeInv /\ (c.at = "born" \/ (c.at = "step" /\ c.code = NoCode))
      BY <1>3 DEF IInv
    <2>2. n = Fresh
      BY <1>1
    <2>. QED
      BY <1>0, <1>2, <1>3, <1>4, <2>1, <2>2, ForkKeeps
  <1>6. NoBackground => AloneAt(p)' /\ RealAt(p)'
    BY <1>0, <1>3, <1>5 DEF AloneAt, RealAt
  <1>. QED
    BY <1>0, <1>5, <1>6, OthersKeep

LEMMA RegisterSafe == ASSUME IInv, NEW p \in Pid, Register(p) PROVE IInv'
  <1>0. /\ proc[p].at = "forked" /\ Alive(p) /\ IsProcess(proc[p]) /\ UNCHANGED script
        /\ NoBackground => Child(p) \subseteq {proc[p].last}
    BY DEF IInv, TypeInv, Register, Alive, Ended, AloneInv, AloneAt
  <1>1. PICK r : \E kids, holds :
            /\ r = [proc[p] EXCEPT !.at = "wait", !.kids = kids, !.holds = holds]
            /\ proc' = [proc EXCEPT ![p].at = "wait", ![p].kids = kids, ![p].holds = holds]
    BY Zenon DEF Register
  <1>2. proc' = [proc EXCEPT ![p] = r]
    BY <1>1
  <1>3. /\ IsProcess(r) /\ r.at = "wait" /\ r.last = proc[p].last
        /\ r.parent = proc[p].parent /\ r.chld = proc[p].chld /\ r.int = proc[p].int
    BY <1>0, <1>1 DEF IsProcess, Places
  <1>4. Changes(p, r)
    BY <1>3 DEF Changes, Ended
  <1>. QED
    BY <1>0, <1>2, <1>3, <1>4, ChangeSafe

\* Without background lines what wait takes is the child forked last, and run
\* returns with its code.
LEMMA WaitSafe == ASSUME IInv, NEW p \in Pid, Wait(p) PROVE IInv'
  <1>0. /\ proc[p].at = "wait" /\ Alive(p) /\ IsProcess(proc[p]) /\ UNCHANGED script
        /\ NoBackground => Child(p) \subseteq {proc[p].last}
    BY DEF IInv, TypeInv, Wait, Alive, Ended, AloneInv, AloneAt
  <1>1. PICK R \in SUBSET Zombies(p) : \E s :
            /\ Return(p, s, R)
            /\ \/ \E z \in Zombies(p) : R = {z} /\ s = proc[z].exit
               \/ R = {} /\ Child(p) = {} /\ s = NotExited
    <2>1. ASSUME NEW z \in Zombies(p), Return(p, proc[z].exit, {z})
          PROVE  \E R \in SUBSET Zombies(p) : \E s :
                    /\ Return(p, s, R)
                    /\ \/ \E y \in Zombies(p) : R = {y} /\ s = proc[y].exit
                       \/ R = {} /\ Child(p) = {} /\ s = NotExited
      <3>1. {z} \in SUBSET Zombies(p)
        OBVIOUS
      <3>. QED
        BY <2>1, <3>1, Zenon
    <2>2. {} \in SUBSET Zombies(p)
      OBVIOUS
    <2>. QED
      BY <2>1, <2>2, Zenon DEF Wait, Nothing
  <1>2. PICK s :
            /\ Return(p, s, R)
            /\ \/ \E z \in Zombies(p) : R = {z} /\ s = proc[z].exit
               \/ R = {} /\ Child(p) = {} /\ s = NotExited
    BY <1>1
  <1>3. PICK r : \E pos, kids, code :
            /\ r = [proc[p] EXCEPT !.at = "step", !.pos = pos, !.kids = kids, !.code = code]
            /\ pos = proc[p].pos + 1 /\ kids = proc[p].kids \ R /\ code = GetExitCode(s)
    OBVIOUS
  <1>4. proc' = [q \in Pid |-> IF q = p THEN r
                    ELSE IF q \in R THEN [proc[q] EXCEPT !.at = "gone"] ELSE proc[q]]
    BY <1>2, <1>3 DEF Return
  <1>5. /\ IsProcess(r) /\ r.at = "step" /\ r.last = proc[p].last /\ r.code = GetExitCode(s)
        /\ r.parent = proc[p].parent /\ r.chld = proc[p].chld /\ r.int = proc[p].int
    BY <1>0, <1>3 DEF IsProcess, Places
  <1>6. /\ TypeInv' /\ TreeInv' /\ Frame(p) /\ proc'[p] = r /\ Child(p)' = Child(p) \ R
        /\ \A q \in R : q # p /\ proc'[q].at = "gone" /\ proc'[q].exit = proc[q].exit
    BY <1>0, <1>4, <1>5, ReapKeeps DEF IInv, Ended
  <1>7. ASSUME NoBackground PROVE AloneAt(p)' /\ RealAt(p)'
    <2>1. CASE R = {} /\ Child(p) = {} /\ s = NotExited
      <3>1. r.code = 0
        BY <1>5, <2>1 DEF GetExitCode
      <3>. QED
        BY <1>5, <1>6, <2>1, <3>1 DEF AloneAt, RealAt
    <2>2. ASSUME NEW z \in Zombies(p), R = {z}, s = proc[z].exit PROVE AloneAt(p)' /\ RealAt(p)'
      <3>1. z \in Pid /\ z \in Child(p) /\ z = proc[p].last /\ Child(p) \ R = {}
        BY <1>0, <1>7, <2>2 DEF Zombies, Child
      <3>2. proc'[z].at = "gone" /\ proc'[z].exit = s
        BY <1>6, <2>2
      <3>3. r.code = 0 \/ r.code = s
        BY <1>5 DEF GetExitCode
      <3>. QED
        BY <1>5, <1>6, <3>1, <3>2, <3>3 DEF AloneAt, RealAt
    <2>. QED
      BY <1>2, <2>1, <2>2
  <1>. QED
    BY <1>0, <1>6, <1>7, OthersKeep

\* A child that becomes a program, or fails to and goes on as a shell.
LEMMA ExecSafe == ASSUME IInv, NEW p \in Pid, Exec(p) PROVE IInv'
  <1>0. /\ proc[p].at = "born" /\ Alive(p) /\ IsProcess(proc[p]) /\ UNCHANGED script
        /\ NoBackground => Child(p) = {}
    BY DEF IInv, TypeInv, Exec, Alive, Ended, AloneInv, AloneAt
  <1>1. PICK b, mine : /\ b = [proc[p] EXCEPT !.holds = mine]
                       /\ mine = proc[p].holds \ Other(Item(p))
    OBVIOUS
  <1>2. CASE Exists(p)
    <2>1. PICK r : \E left : r = [b EXCEPT !.at = "runs", !.left = left, !.kids = {}]
                             /\ left = Writes[Word(p)]
      OBVIOUS
    <2>2. proc' = [proc EXCEPT ![p] = r]
      BY <1>1, <1>2, <2>1 DEF Exec
    <2>3. /\ IsProcess(r) /\ r.at = "runs"
          /\ r.parent = proc[p].parent /\ r.chld = proc[p].chld /\ r.int = proc[p].int
      BY <1>0, <1>1, <2>1 DEF IsProcess, Places
    <2>4. Changes(p, r)
      BY <2>3 DEF Changes, Ended
    <2>5. r.at # "step" /\ r.at \notin {"forked", "wait"}
      BY <2>3
    <2>. QED
      BY <1>0, <2>2, <2>4, <2>5, ChangeSafe, Zenon
  <1>3. CASE ~Exists(p)
    <2>1. PICK r : \E pos : r = [b EXCEPT !.at = "step", !.pos = pos, !.code = 0]
                            /\ pos = b.pos + 1
      OBVIOUS
    <2>2. proc' = [proc EXCEPT ![p] = r]
      BY <1>1, <1>3, <2>1 DEF Exec, GetExitCode
    <2>3. /\ IsProcess(r) /\ r.at = "step" /\ r.code = 0
          /\ r.parent = proc[p].parent /\ r.chld = proc[p].chld /\ r.int = proc[p].int
      BY <1>0, <1>1, <2>1 DEF IsProcess, Places
    <2>4. Changes(p, r)
      BY <2>3 DEF Changes, Ended
    <2>5. ~(r.code > 0) /\ r.at \notin {"forked", "wait"}
      BY <2>3
    <2>. QED
      BY <1>0, <2>2, <2>4, <2>5, ChangeSafe, Zenon
  <1>. QED
    BY <1>2, <1>3

LEMMA ProgramSafe == ASSUME IInv, NEW p \in Pid, ProgramStep(p) PROVE IInv'
  <1>0. /\ proc[p].at = "runs" /\ Alive(p) /\ IsProcess(proc[p]) /\ UNCHANGED script
        /\ NoBackground => Child(p) = {}
    BY DEF IInv, TypeInv, ProgramStep, Write, Read, Finish, Alive, Ended, AloneInv, AloneAt
  <1>1. CASE \E n : proc' = [proc EXCEPT ![p].left = n]
    <2>1. PICK n : proc' = [proc EXCEPT ![p].left = n]
      BY <1>1
    <2>2. PICK r : r = [proc[p] EXCEPT !.left = n]
      OBVIOUS
    <2>3. /\ IsProcess(r) /\ r.at = "runs"
          /\ r.parent = proc[p].parent /\ r.chld = proc[p].chld /\ r.int = proc[p].int
      BY <1>0, <2>2 DEF IsProcess
    <2>4. Changes(p, r) /\ proc' = [proc EXCEPT ![p] = r]
      BY <2>1, <2>2, <2>3 DEF Changes, Ended
    <2>. QED
      BY <1>0, <2>3, <2>4, ChangeSafe
  <1>2. CASE \E s : End(p, s)
    BY <1>0, <1>2, EndAlone
  <1>3. CASE UNCHANGED proc
    <2>1. Signalled(proc')
      BY <1>3, NoSignal DEF IInv
    <2>. QED
      BY <1>0, <1>3, <2>1, SignalSafe DEF IInv, TypeInv
  <1>4. CASE Write(p)
    BY <1>1, <1>2, <1>4 DEF Write
  <1>. QED
    BY <1>2, <1>3, <1>4 DEF ProgramStep, Read, Finish
LEMMA ChildEndSafe == ASSUME IInv, NEW p \in Pid, ChildEndHandler(p) PROVE IInv'
  <1>0. /\ proc[p].at \in {"line", "step", "forked", "wait", "born"}
        /\ Alive(p) /\ IsProcess(proc[p]) /\ UNCHANGED script
    BY DEF IInv, TypeInv, ChildEndHandler, ShellCode, Alive, Ended
  <1>1. PICK r : r = [proc[p] EXCEPT !.chld = FALSE]
    OBVIOUS
  <1>2. proc' = [q \in Pid |-> IF q = p THEN r
                    ELSE IF q \in Zombies(p) THEN [proc[q] EXCEPT !.at = "gone"] ELSE proc[q]]
    BY <1>1 DEF ChildEndHandler, Collected
  <1>3. /\ IsProcess(r) /\ r.at = proc[p].at /\ r.last = proc[p].last /\ r.code = proc[p].code
        /\ r.parent = proc[p].parent /\ r.int = proc[p].int
    BY <1>0, <1>1 DEF IsProcess
  <1>4. r.at \notin Ended \cup {"unborn"}
    BY <1>0, <1>3 DEF Ended
  <1>5. /\ TypeInv' /\ TreeInv' /\ Frame(p) /\ proc'[p] = r
        /\ Child(p)' = Child(p) \ Zombies(p)
    BY <1>0, <1>2, <1>3, <1>4, ReapKeeps DEF IInv
  <1>6. ASSUME NoBackground PROVE AloneAt(p)' /\ RealAt(p)'
    <2>1. AloneAt(p) /\ RealAt(p)
      BY <1>6 DEF IInv, AloneInv, RealInv
    <2>2. AloneAt(p)'
      BY <1>3, <1>5, <2>1 DEF AloneAt
    <2>3. \A z \in Pid : proc[z].at = "gone" => Stays(z)
      BY <1>0, <1>5 DEF Frame, Alive, Ended, Born
    <2>4. RealAt(p)'
      BY <1>3, <1>5, <2>1, <2>3 DEF RealAt, Stays
    <2>. QED
      BY <2>2, <2>4
  <1>. QED
    BY <1>0, <1>5, <1>6, OthersKeep

\* A signal is sent to one process.
LEMMA Sent ==
    ASSUME TypeInv, NEW q \in Pid, NEW r, r = [proc[q] EXCEPT !.int = TRUE]
    PROVE  /\ IsProcess(r) /\ r.at = proc[q].at /\ r.parent = proc[q].parent
           /\ r.last = proc[q].last /\ r.code = proc[q].code /\ r.exit = proc[q].exit
           /\ r.chld = proc[q].chld
  <1>1. IsProcess(proc[q])
    BY DEF TypeInv
  <1>. QED
    BY <1>1 DEF IsProcess

LEMMA InterruptSafe == ASSUME IInv, Interrupt PROVE IInv'
  <1>1. Shell \in Pid /\ TypeInv /\ TreeInv
    BY ShellAssumption DEF Shell, Pid, IInv
  <1>2. PICK r : r = [proc[Shell] EXCEPT !.int = TRUE]
    OBVIOUS
  <1>3. proc' = [proc EXCEPT ![Shell] = r] /\ Alive(Shell) /\ UNCHANGED script
    BY <1>2 DEF Interrupt
  <1>4. /\ IsProcess(r) /\ r.at = proc[Shell].at /\ r.parent = proc[Shell].parent
        /\ r.last = proc[Shell].last /\ r.code = proc[Shell].code
        /\ r.exit = proc[Shell].exit /\ r.chld = proc[Shell].chld
    BY <1>1, <1>2, <1>3, Sent
  <1>5. proc'[Shell] = r /\ \A q \in Pid \ {Shell} : proc'[q] = proc[q]
    BY <1>1, <1>3 DEF TypeInv
  <1>6. Signalled(proc)
    BY <1>1, NoSignal
  <1>7. Signalled(proc')
    BY <1>3, <1>4, <1>5, <1>6 DEF Signalled
  <1>8. proc' = [q \in Pid |-> proc'[q]]
    BY <1>1, <1>3 DEF TypeInv
  <1>. QED
    BY <1>3, <1>7, <1>8, SignalSafe

LEMMA InterruptHandlerSafe == ASSUME IInv, NEW p \in Pid, InterruptHandler(p) PROVE IInv'
  <1>0. Alive(p) /\ UNCHANGED script /\ TypeInv /\ TreeInv /\ Signalled(proc)
    BY TypeFacts, NoSignal DEF IInv, InterruptHandler
  <1>1. PICK f : f = [q \in Pid |-> IF q \in proc[p].kids /\ Alive(q)
                                    THEN [proc[q] EXCEPT !.int = TRUE] ELSE proc[q]]
    OBVIOUS
  <1>2. Signalled(f)
    <2>1. ASSUME NEW q \in Pid, q \in proc[p].kids, Alive(q)
          PROVE  /\ IsProcess(f[q]) /\ f[q].at = proc[q].at /\ f[q].parent = proc[q].parent
                 /\ f[q].last = proc[q].last /\ f[q].code = proc[q].code
                 /\ f[q].exit = proc[q].exit /\ f[q].chld = proc[q].chld
      <3>1. f[q] = [proc[q] EXCEPT !.int = TRUE]
        BY <1>1, <2>1
      <3>. QED
        BY <1>0, <2>1, <3>1, Sent
    <2>2. ASSUME NEW q \in Pid, ~(q \in proc[p].kids /\ Alive(q)) PROVE f[q] = proc[q]
      BY <1>1, <2>2
    <2>. QED
      BY <1>0, <2>1, <2>2 DEF Signalled
  <1>3. CASE proc[p].at = "runs"
    <2>1. End(p, NotExited)
      BY <1>3 DEF InterruptHandler
    <2>. QED
      BY <1>0, <2>1, EndAlone
  <1>4. CASE proc[p].at # "runs" /\ p # Shell
    <2>1. proc' = AfterEnd(f, p, 1)
      BY <1>1, <1>4 DEF InterruptHandler
    <2>. QED
      BY <1>0, <1>2, <2>1, EndSafe
  <1>5. CASE proc[p].at # "runs" /\ p = Shell
    <2>1. PICK r : r = [f[p] EXCEPT !.int = FALSE]
      OBVIOUS
    <2>2. proc' = [f EXCEPT ![p] = r]
      BY <1>1, <1>5, <2>1 DEF InterruptHandler
    <2>3. IsProcess(f[p])
      BY <1>2 DEF Signalled
    <2>4. /\ IsProcess(r) /\ r.at = f[p].at /\ r.parent = f[p].parent /\ r.last = f[p].last
          /\ r.code = f[p].code /\ r.exit = f[p].exit /\ r.chld = f[p].chld /\ ~r.int
      BY <2>1, <2>3 DEF IsProcess
    <2>5. /\ proc'[p] = r /\ \A q \in Pid \ {p} : proc'[q] = f[q]
          /\ proc' = [q \in Pid |-> proc'[q]]
      BY <1>1, <2>2
    <2>6. Signalled(proc')
      BY <1>2, <2>4, <2>5 DEF Signalled
    <2>. QED
      BY <1>0, <2>5, <2>6, SignalSafe
  <1>. QED
    BY <1>3, <1>4, <1>5
-----------------------------------------------------------------------------
LEMMA NextSafe == IInv /\ [Next]_vars => IInv'
  <1> SUFFICES ASSUME IInv, [Next]_vars PROVE IInv'
    OBVIOUS
  <1>1. CASE Interrupt
    BY <1>1, InterruptSafe
  <1>2. ASSUME NEW p \in Pid, Step(p) PROVE IInv'
    <2>1. CASE Quit(p)
      <3>1. Alive(p) /\ End(p, 0) /\ UNCHANGED script
        BY <2>1 DEF Quit, Alive, Ended
      <3>. QED
        BY <3>1, EndAlone
    <2>. QED
      BY <1>2, <2>1, ReadLineSafe, DecideSafe, RunSafe, RegisterSafe, WaitSafe, ExecSafe,
         ProgramSafe DEF Step
  <1>3. ASSUME NEW p \in Pid, Signals(p) PROVE IInv'
    BY <1>3, ChildEndSafe, InterruptHandlerSafe DEF Signals
  <1>4. CASE UNCHANGED vars
    <2>1. UNCHANGED proc /\ UNCHANGED script
      BY <1>4 DEF vars
    <2>2. Signalled(proc') /\ proc' = [q \in Pid |-> proc'[q]]
      BY <2>1, NoSignal DEF IInv, TypeInv
    <2>. QED
      BY <2>1, <2>2, SignalSafe
  <1>. QED
    BY <1>1, <1>2, <1>3, <1>4 DEF Next, System

THEOREM Invariance == Spec => []IInv
  <1>1. Init => IInv
    BY InitSafe
  <1>2. IInv /\ [Next]_vars => IInv'
    BY NextSafe
  <1>. QED
    BY <1>1, <1>2, PTL DEF Spec

\* Without background lines a shell goes on only when what it has started is
\* over (CommandItem::run waits), though both wait and the handler reap.
THEOREM CommandsRunInTurn == Spec => []OneAtATime
  <1>1. IInv => OneAtATime
    BY DEF IInv, AloneInv, AloneAt, OneAtATime
  <1>. QED
    BY <1>1, Invariance, PTL

\* An exit_code that is not 0 is that of the command run last, whoever reaped
\* it: && and || never see a failure that did not happen.
THEOREM NoFailureIsMadeUp == Spec => []FailureIsReal
  <1>1. IInv => FailureIsReal
    BY DEF IInv, RealInv, RealAt, FailureIsReal
  <1>. QED
    BY <1>1, Invariance, PTL

\* Whatever is started, piped, interrupted or put into the background: the
\* parent of a zombie has its SIGCHLD still to handle.
THEOREM ZombiesAreAwaited == Spec => []NoZombieIsForgotten
  <1>1. IInv => NoZombieIsForgotten
    BY DEF IInv, TreeInv, Awaited, NoZombieIsForgotten
  <1>. QED
    BY <1>1, Invariance, PTL

=============================================================================
