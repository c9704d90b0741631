----------------------------- MODULE LocksProofs -----------------------------
(***************************************************************************)
(* Every deadlock involves a nested request, for any number of threads and *)
(* pages.  The locks have an order (Rank), and every operation asks for    *)
(* locks of higher rank than those it holds, with two exceptions: the      *)
(* nested requests, and CREATE INDEX, which asks for a column under a page *)
(* but holds the table's write lock, so that nobody else has the column.   *)
(*                                                                         *)
(* The first half follows the scripts: for each operation it constructs    *)
(* the locks that are held at each request (Follows).  The second half is  *)
(* the invariant of the threads that run them, and the argument about a    *)
(* request of the highest rank in a deadlock.                              *)
(***************************************************************************)
EXTENDS Locks, FiniteSetTheorems, SequenceTheorems, TLAPS

-----------------------------------------------------------------------------
(* Stacks of locks                                                         *)

Names == {"db", "other", "table", "key", "parent", "row_space", "page"}

Rank(lock) ==
    CASE lock = "db" -> 0 [] lock = "other" -> 1 [] lock = "table" -> 2
      [] lock = "key" -> 3 [] lock = "parent" -> 3 [] lock = "row_space" -> 4
      [] lock = "page" -> 5

\* A lock held, by its name, and its mode.
Named == [lock : Names, mode : {"read", "write"}]
Entry(step) == [lock |-> step.lock, mode |-> step.mode]

Prefix(s, u) == Len(s) <= Len(u) /\ \A i \in 1..Len(s) : s[i] = u[i]

Has(s, locks) == \E i \in 1..Len(s) : s[i].lock \in locks

\* The stacks of Nested.
NestedStack(kind, s) ==
    \/ kind \in {"update", "sort"} /\ Has(s, {"page"})
    \/ kind \in {"foreign_key_other", "foreign_key_self"}
       /\ \E i \in 1..Len(s) : s[i].lock = "parent" /\ s[i].mode = "read"
    \/ kind = "create_table_self"
       /\ \E i \in 1..Len(s) : s[i].lock = "other" /\ s[i].mode = "write"

\* Everything in s comes before the lock.
Below(s, lock) == \A i \in 1..Len(s) : Rank(s[i].lock) < Rank(lock)

\* CREATE INDEX under a page.
GateStack(s, lock) ==
    /\ lock = "key" /\ ~Has(s, {"key"})
    /\ \E i \in 1..Len(s) : s[i].lock = "table" /\ s[i].mode = "write"

\* A column lock is taken under a table lock only.
Allowed(kind, s, lock) ==
    /\ lock = "key" => Has(s, {"table"})
    /\ NestedStack(kind, s) \/ Below(s, lock) \/ GateStack(s, lock)

Steps ==
    {step \in [mode : {"read", "write"}, lock : Names, ids : SUBSET (Pages \cup {0}),
               keep : Nat, skip : Nat] :
        step.ids \subseteq IF step.lock = "page" THEN Pages ELSE {0}}

Stacks == Seq(Named)

\* st has the stack of each request of part p, which begins when h is held and
\* releases nothing of h: what is held after a request, or after a part that is
\* left out, is what the next one keeps of it.
Follows(st, p, h, kind) ==
    /\ p \in Seq(Steps) /\ Len(p) > 0
    /\ st \in Seq(Stacks) /\ Len(st) = Len(p) /\ st[1] = h
    /\ \A n \in 1..Len(p) :
        /\ p[n].keep = Len(st[n]) /\ Prefix(h, st[n])
        /\ Allowed(kind, st[n], p[n].lock)
        /\ n < Len(p) => Prefix(st[n + 1], Append(st[n], Entry(p[n])))
        /\ p[n].skip > 0 =>
            /\ n + p[n].skip <= Len(p) + 1
            /\ n + p[n].skip <= Len(p) => Prefix(st[n + p[n].skip], st[n])

Runs(p, h, kind) == \E st : Follows(st, p, h, kind)

-----------------------------------------------------------------------------
(* Composition of parts                                                    *)

LEMMA PrefixTransitive ==
  ASSUME NEW a \in Stacks, NEW b \in Stacks, NEW c \in Stacks, Prefix(a, b), Prefix(b, c)
  PROVE  Prefix(a, c)
  BY DEF Prefix, Stacks

LEMMA PrefixAppend ==
  ASSUME NEW a \in Stacks, NEW b \in Stacks, NEW x \in Named, Prefix(a, b)
  PROVE  Append(b, x) \in Stacks /\ Prefix(a, Append(b, x))
  BY DEF Prefix, Stacks

LEMMA PrefixSelf ==
  ASSUME NEW a \in Stacks
  PROVE  Prefix(a, a)
  BY DEF Prefix, Stacks

LEMMA EntryType ==
  ASSUME NEW step \in Steps
  PROVE  Entry(step) \in Named
  BY DEF Entry, Steps, Named

LEMMA Concat ==
  ASSUME NEW S, NEW p \in Seq(S), NEW q \in Seq(S)
  PROVE  /\ p \o q \in Seq(S) /\ Len(p \o q) = Len(p) + Len(q)
         /\ \A n \in 1..Len(p) : (p \o q)[n] = p[n]
         /\ \A m \in 1..Len(q) : (p \o q)[Len(p) + m] = q[m]
  BY ConcatProperties, LenProperties

\* Two parts one after the other: the second begins with g, which is left of the
\* last request of the first and of whatever skips to its end.
LEMMA Joined ==
  ASSUME NEW p, NEW q, NEW h \in Stacks, NEW g \in Stacks, NEW kind, NEW s, NEW u,
         Follows(s, p, h, kind), Follows(u, q, g, kind), Prefix(h, g),
         Prefix(g, Append(s[Len(p)], Entry(p[Len(p)]))),
         \A n \in 1..Len(p) : p[n].skip > 0 /\ n + p[n].skip = Len(p) + 1 => Prefix(g, s[n])
  PROVE  Follows(s \o u, p \o q, h, kind)
  <1>1. /\ p \in Seq(Steps) /\ q \in Seq(Steps) /\ s \in Seq(Stacks) /\ u \in Seq(Stacks)
        /\ Len(p) \in Nat /\ Len(q) \in Nat /\ Len(p) > 0 /\ Len(q) > 0
        /\ Len(s) = Len(p) /\ Len(u) = Len(q) /\ s[1] = h /\ u[1] = g
    BY DEF Follows
  <1>2. /\ p \o q \in Seq(Steps) /\ s \o u \in Seq(Stacks)
        /\ Len(p \o q) = Len(p) + Len(q) /\ Len(s \o u) = Len(p) + Len(q)
        /\ \A n \in 1..Len(p) : (p \o q)[n] = p[n] /\ (s \o u)[n] = s[n]
        /\ \A m \in 1..Len(q) :
              (p \o q)[Len(p) + m] = q[m] /\ (s \o u)[Len(p) + m] = u[m]
    <2>1. /\ p \o q \in Seq(Steps) /\ Len(p \o q) = Len(p) + Len(q)
          /\ \A n \in 1..Len(p) : (p \o q)[n] = p[n]
          /\ \A m \in 1..Len(q) : (p \o q)[Len(p) + m] = q[m]
      BY <1>1, Concat
    <2>2. /\ s \o u \in Seq(Stacks) /\ Len(s \o u) = Len(s) + Len(u)
          /\ \A n \in 1..Len(s) : (s \o u)[n] = s[n]
          /\ \A m \in 1..Len(u) : (s \o u)[Len(s) + m] = u[m]
      <3>1. s \in Seq(Stacks) /\ u \in Seq(Stacks)
        BY <1>1
      <3> DEFINE SS == Stacks
      <3>2. s \in Seq(SS) /\ u \in Seq(SS)
        BY <3>1
      <3> HIDE DEF SS
      <3>3. /\ s \o u \in Seq(SS) /\ Len(s \o u) = Len(s) + Len(u)
            /\ \A n \in 1..Len(s) : (s \o u)[n] = s[n]
            /\ \A m \in 1..Len(u) : (s \o u)[Len(s) + m] = u[m]
        BY <3>2, Concat
      <3> QED  BY <3>3 DEF SS
    <2> QED  BY <1>1, <2>1, <2>2
  <1>3. \A n \in 1..Len(p) : p[n] \in Steps /\ s[n] \in Stacks /\ p[n].skip \in Nat
    BY <1>1, SMTT(30) DEF Steps
  <1>4. \A n \in 1..Len(q) : q[n] \in Steps /\ u[n] \in Stacks /\ q[n].skip \in Nat
    BY <1>1, SMTT(30) DEF Steps
  <1> DEFINE pq == p \o q
             su == s \o u
             N == Len(p) + Len(q)
  <1> SUFFICES ASSUME NEW n \in 1..N
               PROVE  /\ pq[n].keep = Len(su[n]) /\ Prefix(h, su[n])
                      /\ Allowed(kind, su[n], pq[n].lock)
                      /\ n < N => Prefix(su[n + 1], Append(su[n], Entry(pq[n])))
                      /\ pq[n].skip > 0 =>
                          /\ n + pq[n].skip <= N + 1
                          /\ n + pq[n].skip <= N => Prefix(su[n + pq[n].skip], su[n])
    <2>1. Len(pq) = N /\ Len(su) = N /\ N > 0
      BY <1>1, <1>2
    <2>2. su[1] = h
      BY <1>1, <1>2
    <2> HIDE DEF N
    <2> QED  BY <1>2, <2>1, <2>2 DEF Follows
  <1>5. su[Len(p) + 1] = g
    BY <1>1, <1>2
  <1>6. CASE n <= Len(p)
    <2>1. /\ n \in 1..Len(p) /\ pq[n] = p[n] /\ su[n] = s[n]
      BY <1>1, <1>2, <1>6
    <2>2. /\ p[n].keep = Len(s[n]) /\ Prefix(h, s[n]) /\ Allowed(kind, s[n], p[n].lock)
          /\ n < Len(p) => Prefix(s[n + 1], Append(s[n], Entry(p[n])))
          /\ p[n].skip > 0 =>
              /\ n + p[n].skip <= Len(p) + 1
              /\ n + p[n].skip <= Len(p) => Prefix(s[n + p[n].skip], s[n])
      BY <2>1 DEF Follows
    <2>3. Prefix(su[n + 1], Append(su[n], Entry(pq[n])))
      <3>1. CASE n < Len(p)
        <4>1. n + 1 \in 1..Len(p)
          BY <1>1, <2>1, <3>1
        <4> QED  BY <1>2, <2>1, <2>2, <3>1, <4>1
      <3>2. CASE n = Len(p)
        BY <1>5, <2>1, <3>2
      <3> QED  BY <1>1, <1>6, <3>1, <3>2
    <2>4. pq[n].skip > 0 =>
              /\ n + pq[n].skip <= N + 1
              /\ n + pq[n].skip <= N => Prefix(su[n + pq[n].skip], su[n])
      <3> SUFFICES ASSUME p[n].skip > 0
                   PROVE  /\ n + p[n].skip <= N + 1
                          /\ Prefix(su[n + p[n].skip], s[n])
        BY <2>1
      <3>1. n + p[n].skip <= N + 1
        BY <1>1, <1>3, <2>1, <2>2
      <3>2. CASE n + p[n].skip <= Len(p)
        <4>1. n + p[n].skip \in 1..Len(p)
          BY <1>1, <1>3, <2>1, <3>2
        <4> QED  BY <1>2, <2>2, <3>1, <3>2, <4>1
      <3>3. CASE n + p[n].skip = Len(p) + 1
        BY <1>5, <2>1, <3>1, <3>3
      <3>4. n + p[n].skip <= Len(p) \/ n + p[n].skip = Len(p) + 1
        <4>1. n + p[n].skip <= Len(p) + 1
          BY <2>2
        <4>2. n \in Nat /\ p[n].skip \in Nat /\ Len(p) \in Nat
          BY <1>1, <1>3, <2>1
        <4>3. \A i, j, k \in Nat : i + j <= k + 1 => i + j <= k \/ i + j = k + 1
          OBVIOUS
        <4> DEFINE i == p[n].skip
                   k == Len(p)
        <4>4. n \in Nat /\ i \in Nat /\ k \in Nat /\ n + i <= k + 1
          BY <4>1, <4>2, Zenon
        <4> HIDE DEF i, k
        <4>5. n + i <= k \/ n + i = k + 1
          BY <4>3, <4>4, Zenon
        <4> QED  BY <4>5, Zenon DEF i, k
      <3> HIDE DEF su, N
      <3> QED  BY <3>1, <3>2, <3>3, <3>4
    <2> QED  BY <2>1, <2>2, <2>3, <2>4
  <1>7. ASSUME NEW m \in 1..Len(q), n = Len(p) + m
        PROVE  /\ pq[n].keep = Len(su[n]) /\ Prefix(h, su[n])
               /\ Allowed(kind, su[n], pq[n].lock)
               /\ n < N => Prefix(su[n + 1], Append(su[n], Entry(pq[n])))
               /\ pq[n].skip > 0 =>
                   /\ n + pq[n].skip <= N + 1
                   /\ n + pq[n].skip <= N => Prefix(su[n + pq[n].skip], su[n])
    <2>1. /\ pq[n] = q[m] /\ su[n] = u[m] /\ m \in Nat /\ q[m].skip \in Nat
      <3>1. pq[Len(p) + m] = q[m] /\ su[Len(p) + m] = u[m]
        BY <1>2
      <3>2. m \in Nat /\ q[m].skip \in Nat
        BY <1>4
      <3> HIDE DEF pq, su
      <3> QED  BY <1>7, <3>1, <3>2
    <2>2. /\ q[m].keep = Len(u[m]) /\ Prefix(g, u[m]) /\ Allowed(kind, u[m], q[m].lock)
          /\ m < Len(q) => Prefix(u[m + 1], Append(u[m], Entry(q[m])))
          /\ q[m].skip > 0 =>
              /\ m + q[m].skip <= Len(q) + 1
              /\ m + q[m].skip <= Len(q) => Prefix(u[m + q[m].skip], u[m])
      BY <2>1 DEF Follows
    <2>3. Prefix(h, u[m])
      BY <1>4, <2>1, <2>2, PrefixTransitive
    <2>4. \A k \in Nat : n + k <= N /\ k > 0 => m + k <= Len(q) /\ su[n + k] = u[m + k]
      <3> SUFFICES ASSUME NEW k \in Nat, n + k <= N, k > 0
                   PROVE  m + k <= Len(q) /\ su[n + k] = u[m + k]
        OBVIOUS
      <3>1. m + k \in 1..Len(q) /\ n + k = Len(p) + (m + k)
        BY <1>1, <1>7, <2>1
      <3>2. su[Len(p) + (m + k)] = u[m + k]
        BY <1>2, <3>1
      <3>3. m + k <= Len(q)
        BY <1>1, <3>1
      <3> HIDE DEF su
      <3> QED  BY <3>1, <3>2, <3>3
    <2>5. n < N => m < Len(q) /\ su[n + 1] = u[m + 1]
      <3>1. n < N => n + 1 <= N /\ 1 \in Nat /\ 1 > 0 /\ m < Len(q)
        BY <1>1, <1>7, <2>1
      <3> HIDE DEF su, N
      <3> QED  BY <2>4, <3>1
    <2>6. q[m].skip > 0 => n + q[m].skip <= N + 1
      <3> SUFFICES ASSUME q[m].skip > 0 PROVE n + q[m].skip <= N + 1
        OBVIOUS
      <3>1. m + q[m].skip <= Len(q) + 1
        BY <2>2
      <3> QED  BY <1>1, <1>7, <2>1, <3>1
    <2> QED  BY <2>1, <2>2, <2>3, <2>4, <2>5, <2>6
  <1>8. CASE n > Len(p)
    <2>1. n - Len(p) \in 1..Len(q) /\ n = Len(p) + (n - Len(p))
      BY <1>1, <1>8
    <2> QED  BY <1>7, <2>1
  <1> HIDE DEF pq, su
  <1> QED  BY <1>1, <1>6, <1>8

\* Two parts, one after the other has ended.
LEMMA InTurn ==
  ASSUME NEW p, NEW q, NEW h \in Stacks, NEW kind, Runs(p, h, kind), Runs(q, h, kind)
  PROVE  Runs(p \o q, h, kind)
  <1>1. PICK s : Follows(s, p, h, kind)
    BY DEF Runs
  <1>2. PICK u : Follows(u, q, h, kind)
    BY DEF Runs
  <1>3. p \in Seq(Steps) /\ s \in Seq(Stacks) /\ Len(s) = Len(p) /\ Len(p) \in Nat /\ Len(p) > 0
    BY <1>1 DEF Follows
  <1>4. \A n \in 1..Len(p) : p[n] \in Steps /\ s[n] \in Stacks /\ Prefix(h, s[n])
    BY <1>1, <1>3 DEF Follows
  <1>5. Prefix(h, Append(s[Len(p)], Entry(p[Len(p)])))
    BY <1>3, <1>4, EntryType, PrefixAppend
  <1>6. Follows(s \o u, p \o q, h, kind)
    BY <1>1, <1>2, <1>4, <1>5, PrefixSelf, Joined
  <1> QED  BY <1>6 DEF Runs

\* One request.
LEMMA One ==
  ASSUME NEW step \in Steps, NEW h \in Stacks, NEW kind,
         step.keep = Len(h), step.skip = 0, Allowed(kind, h, step.lock)
  PROVE  Follows(<<h>>, <<step>>, h, kind) /\ Runs(<<step>>, h, kind)
  <1>1. Follows(<<h>>, <<step>>, h, kind)
    <2>1. Prefix(h, h)
      BY PrefixSelf
    <2>2. /\ <<step>> \in Seq(Steps) /\ Len(<<step>>) = 1 /\ <<step>>[1] = step
          /\ <<h>> \in Seq(Stacks) /\ Len(<<h>>) = 1 /\ <<h>>[1] = h
      OBVIOUS
    <2> QED  BY <2>1, <2>2 DEF Follows
  <1> QED  BY <1>1 DEF Runs

\* A part that runs while the lock of one request is held.
LEMMA Inside ==
  ASSUME NEW step \in Steps, NEW q, NEW h \in Stacks, NEW kind,
         step.keep = Len(h), step.skip = 0, Allowed(kind, h, step.lock),
         Runs(q, Append(h, Entry(step)), kind)
  PROVE  Runs(<<step>> \o q, h, kind)
  <1> DEFINE g == Append(h, Entry(step))
  <1>1. Follows(<<h>>, <<step>>, h, kind)
    BY One
  <1>2. g \in Stacks /\ Prefix(h, g) /\ Prefix(g, g)
    BY EntryType, PrefixSelf, PrefixAppend
  <1>3. PICK u : Follows(u, q, g, kind)
    BY DEF Runs
  <1>4. Len(<<step>>) = 1 /\ <<step>>[1] = step /\ <<h>>[1] = h
    OBVIOUS
  <1>5. Prefix(g, Append(<<h>>[Len(<<step>>)], Entry(<<step>>[Len(<<step>>)])))
    BY <1>2, <1>4
  <1>6. \A n \in 1..Len(<<step>>) : ~(<<step>>[n].skip > 0)
    BY <1>4
  <1>7. Follows(<<h>> \o u, <<step>> \o q, h, kind)
    <2> HIDE DEF g
    <2> QED  BY <1>1, <1>2, <1>3, <1>5, <1>6, Joined
  <1> QED  BY <1>7 DEF Runs

\* A part that may be left out.
LEMMA Optional ==
  ASSUME NEW p, NEW h \in Stacks, NEW kind, Runs(p, h, kind)
  PROVE  Runs(Maybe(p), h, kind)
  <1>1. PICK s : Follows(s, p, h, kind)
    BY DEF Runs
  <1>2. p \in Seq(Steps) /\ Len(p) \in Nat /\ Len(p) > 0 /\ 1 \in 1..Len(p) /\ p[1] \in Steps
    BY <1>1 DEF Follows
  <1> DEFINE first == [p[1] EXCEPT !.skip = Len(p)]
  <1>3. first \in Steps /\ first.skip = Len(p) /\ first.lock = p[1].lock
        /\ first.keep = p[1].keep /\ Entry(first) = Entry(p[1])
    BY <1>2 DEF Steps, Entry
  <1>4. Maybe(p) = [p EXCEPT ![1] = first]
    BY <1>2 DEF Maybe
  <1> HIDE DEF first
  <1>5. /\ Maybe(p) \in Seq(Steps) /\ Len(Maybe(p)) = Len(p) /\ Maybe(p)[1] = first
        /\ \A n \in 1..Len(p) : n # 1 => Maybe(p)[n] = p[n]
    BY <1>2, <1>3, <1>4
  <1>6. Follows(s, Maybe(p), h, kind)
    <2> SUFFICES ASSUME NEW n \in 1..Len(p)
                 PROVE  /\ Maybe(p)[n].keep = Len(s[n]) /\ Prefix(h, s[n])
                        /\ Allowed(kind, s[n], Maybe(p)[n].lock)
                        /\ n < Len(p) => Prefix(s[n + 1], Append(s[n], Entry(Maybe(p)[n])))
                        /\ Maybe(p)[n].skip > 0 =>
                            /\ n + Maybe(p)[n].skip <= Len(p) + 1
                            /\ n + Maybe(p)[n].skip <= Len(p)
                                  => Prefix(s[n + Maybe(p)[n].skip], s[n])
      BY <1>1, <1>2, <1>5 DEF Follows
    <2>1. /\ p[n].keep = Len(s[n]) /\ Prefix(h, s[n]) /\ Allowed(kind, s[n], p[n].lock)
          /\ n < Len(p) => Prefix(s[n + 1], Append(s[n], Entry(p[n])))
          /\ p[n].skip > 0 =>
              /\ n + p[n].skip <= Len(p) + 1
              /\ n + p[n].skip <= Len(p) => Prefix(s[n + p[n].skip], s[n])
      BY <1>1 DEF Follows
    <2>2. CASE n = 1
      BY <1>2, <1>3, <1>5, <2>1, <2>2
    <2>3. CASE n # 1
      BY <1>5, <2>1, <2>3
    <2> QED  BY <2>2, <2>3
  <1> QED  BY <1>6 DEF Runs

-----------------------------------------------------------------------------
(* The parts of the operations                                             *)

Rd(lock) == [lock |-> lock, mode |-> "read"]
Wr(lock) == [lock |-> lock, mode |-> "write"]

\* A lock may be asked for while h is held.
Open(kind, h, lock) == NestedStack(kind, h) \/ Below(h, lock)

LEMMA Ranks ==
  /\ Rank("db") = 0 /\ Rank("other") = 1 /\ Rank("table") = 2 /\ Rank("key") = 3
  /\ Rank("parent") = 3 /\ Rank("row_space") = 4 /\ Rank("page") = 5
  /\ \A lock \in Names : Rank(lock) \in 0..5
  BY DEF Rank, Names

\* What is open stays so under a lock of lower rank, and for locks of higher rank.
LEMMA Grow ==
  ASSUME NEW h \in Stacks, NEW x \in Named, NEW kind
  PROVE  /\ Append(h, x) \in Stacks /\ Len(Append(h, x)) = Len(h) + 1 /\ Len(h) \in Nat
         /\ \A i \in 1..Len(h) : Append(h, x)[i] = h[i]
         /\ Append(h, x)[Len(h) + 1] = x
         /\ \A locks : Has(Append(h, x), locks) <=> Has(h, locks) \/ x.lock \in locks
         /\ NestedStack(kind, h) => NestedStack(kind, Append(h, x))
         /\ \A lock \in Names : Open(kind, h, lock) /\ Rank(x.lock) < Rank(lock)
                                   => Open(kind, Append(h, x), lock)
  <1>1. /\ Append(h, x) \in Stacks /\ Len(Append(h, x)) = Len(h) + 1 /\ Len(h) \in Nat
        /\ \A i \in 1..Len(h) : Append(h, x)[i] = h[i]
        /\ Append(h, x)[Len(h) + 1] = x
    BY DEF Stacks
  <1> DEFINE g == Append(h, x)
             n == Len(h)
  <1>2. \A i : i \in 1..Len(g) <=> i \in 1..n \/ i = n + 1
    BY <1>1
  <1> HIDE DEF g
  <1>3. \A locks : Has(g, locks) <=> Has(h, locks) \/ x.lock \in locks
    BY <1>1, <1>2 DEF Has, g
  <1>4. NestedStack(kind, h) => NestedStack(kind, g)
    BY <1>1, <1>2 DEF NestedStack, Has, g
  <1>5. \A lock \in Names : Below(h, lock) /\ Rank(x.lock) < Rank(lock) => Below(g, lock)
    BY <1>1, <1>2 DEF Below, g
  <1> QED  BY <1>1, <1>3, <1>4, <1>5 DEF Open, g

LEMMA Push ==
  ASSUME NEW h \in Stacks, NEW x \in Named, NEW kind, NEW lock \in Names,
         Open(kind, h, lock), Rank(x.lock) < Rank(lock)
  PROVE  /\ Append(h, x) \in Stacks /\ Len(Append(h, x)) = Len(h) + 1
         /\ Open(kind, Append(h, x), lock)
  BY Grow

LEMMA OpenHigher ==
  ASSUME NEW h \in Stacks, NEW kind, NEW a \in Names, NEW b \in Names,
         Open(kind, h, a), Rank(a) <= Rank(b)
  PROVE  Open(kind, h, b)
  <1>1. \A i \in 1..Len(h) : h[i].lock \in Names
    <2>1. \A i \in 1..Len(h) : h[i] \in Named
      BY DEF Stacks
    <2> QED  BY <2>1 DEF Named
  <1>2. \A i \in 1..Len(h) : Rank(h[i].lock) < Rank(a) => Rank(h[i].lock) < Rank(b)
    BY <1>1, Ranks
  <1> QED  BY <1>2 DEF Open, Below

\* One request, and one that keeps its lock while q runs.
LEMMA Plain ==
  ASSUME NEW lock \in Names \ {"page"}, NEW h \in Stacks, NEW d, d = Len(h), NEW kind, NEW q,
         Open(kind, h, lock) \/ GateStack(h, lock), lock = "key" => Has(h, {"table"})
  PROVE  /\ Runs(R(lock, d), h, kind) /\ Runs(W(lock, d), h, kind)
         /\ Runs(q, Append(h, Rd(lock)), kind) => Runs(R(lock, d) \o q, h, kind)
         /\ Runs(q, Append(h, Wr(lock)), kind) => Runs(W(lock, d) \o q, h, kind)
  <1>1. d \in Nat /\ Allowed(kind, h, lock)
    BY DEF Stacks, Allowed, Open
  <1>2. ASSUME NEW mode \in {"read", "write"}
        PROVE  LET step == Step(mode, lock, {0}, d)
               IN step \in Steps /\ step.keep = Len(h) /\ step.skip = 0 /\ step.lock = lock
                  /\ Entry(step) = [lock |-> lock, mode |-> mode]
    BY <1>1 DEF Step, Steps, Entry
  <1> DEFINE r == Step("read", lock, {0}, d)
             w == Step("write", lock, {0}, d)
  <1>3. R(lock, d) = <<r>> /\ W(lock, d) = <<w>>
    BY DEF R, W
  <1>4. /\ r \in Steps /\ r.keep = Len(h) /\ r.skip = 0 /\ r.lock = lock /\ Entry(r) = Rd(lock)
        /\ w \in Steps /\ w.keep = Len(h) /\ w.skip = 0 /\ w.lock = lock /\ Entry(w) = Wr(lock)
    BY <1>2 DEF Rd, Wr
  <1> HIDE DEF r, w
  <1>5. Runs(<<r>>, h, kind) /\ Runs(<<w>>, h, kind)
    BY <1>1, <1>4, One
  <1>6. Runs(q, Append(h, Rd(lock)), kind) => Runs(<<r>> \o q, h, kind)
    BY <1>1, <1>4, Inside
  <1>7. Runs(q, Append(h, Wr(lock)), kind) => Runs(<<w>> \o q, h, kind)
    BY <1>1, <1>4, Inside
  <1> QED  BY <1>3, <1>5, <1>6, <1>7

\* The same for a page.
LEMMA OnePage ==
  ASSUME NEW h \in Stacks, NEW d, d = Len(h), NEW kind, NEW q, Open(kind, h, "page")
  PROVE  /\ Runs(ReadPage(d), h, kind) /\ Runs(WritePage(d), h, kind)
         /\ Runs(q, Append(h, Rd("page")), kind) => Runs(ReadPage(d) \o q, h, kind)
         /\ Runs(q, Append(h, Wr("page")), kind) => Runs(WritePage(d) \o q, h, kind)
  <1>1. d \in Nat /\ Allowed(kind, h, "page")
    BY DEF Stacks, Allowed, Open
  <1>2. ASSUME NEW mode \in {"read", "write"}
        PROVE  LET step == Step(mode, "page", Pages, d)
               IN step \in Steps /\ step.keep = Len(h) /\ step.skip = 0 /\ step.lock = "page"
                  /\ Entry(step) = [lock |-> "page", mode |-> mode]
    BY <1>1 DEF Step, Steps, Entry, Names
  <1> DEFINE r == Step("read", "page", Pages, d)
             w == Step("write", "page", Pages, d)
  <1>3. ReadPage(d) = <<r>> /\ WritePage(d) = <<w>>
    BY DEF ReadPage, WritePage
  <1>4. /\ r \in Steps /\ r.keep = Len(h) /\ r.skip = 0 /\ r.lock = "page" /\ Entry(r) = Rd("page")
        /\ w \in Steps /\ w.keep = Len(h) /\ w.skip = 0 /\ w.lock = "page" /\ Entry(w) = Wr("page")
    BY <1>2 DEF Rd, Wr
  <1> HIDE DEF r, w
  <1>5. Runs(<<r>>, h, kind) /\ Runs(<<w>>, h, kind)
    BY <1>1, <1>4, One
  <1>6. Runs(q, Append(h, Rd("page")), kind) => Runs(<<r>> \o q, h, kind)
    BY <1>1, <1>4, Inside
  <1>7. Runs(q, Append(h, Wr("page")), kind) => Runs(<<w>> \o q, h, kind)
    BY <1>1, <1>4, Inside
  <1> QED  BY <1>3, <1>5, <1>6, <1>7

\* All pages in turn: each one is released before the next is asked for.
LEMMA AllPages ==
  ASSUME NEW h \in Stacks, NEW d, d = Len(h), NEW kind, Open(kind, h, "page")
  PROVE  Runs(WriteAllPages(d), h, kind)
  <1> DEFINE N == Cardinality(Pages)
             p == WriteAllPages(d)
             st == [i \in 1..N |-> h]
  <1>1. N \in Nat /\ N > 0
    BY LocksAssumption, FS_CardinalityType, FS_EmptySet
  <1>2. d \in Nat /\ Allowed(kind, h, "page")
    BY DEF Stacks, Allowed, Open
  <1>3. \A ids \in SUBSET Pages :
           LET step == Step("write", "page", ids, d)
           IN step \in Steps /\ step.keep = Len(h) /\ step.skip = 0 /\ step.lock = "page"
    BY <1>2 DEF Step, Steps, Names
  <1> HIDE DEF N
  <1>4. /\ DOMAIN p = 1..N
        /\ \A i \in 1..N : p[i] \in Steps /\ p[i].keep = Len(h) /\ p[i].skip = 0
                           /\ p[i].lock = "page"
    BY <1>3 DEF WriteAllPages, N
  <1>5. p \in Seq(Steps) /\ Len(p) = N
    <2>1. p = [i \in 1..N |-> p[i]]
      BY DEF WriteAllPages, N
    <2> HIDE DEF p
    <2>2. p \in [1..N -> Steps]
      BY <1>4, <2>1
    <2> QED  BY <1>1, <2>2, IsASeq
  <1>6. st \in Seq(Stacks) /\ Len(st) = N /\ \A i \in 1..N : st[i] = h
    BY <1>1, IsASeq
  <1> HIDE DEF p, st
  <1>7. \A i \in 1..N : Prefix(h, Append(h, Entry(p[i])))
    BY <1>4, EntryType, PrefixSelf, PrefixAppend
  <1>8. Follows(st, p, h, kind)
    <2>1. Prefix(h, h)
      BY PrefixSelf
    <2>2. \A n \in 1..N : n < N => n + 1 \in 1..N
      BY <1>1
    <2>3. 1 \in 1..N
      BY <1>1
    <2> QED  BY <1>1, <1>2, <1>4, <1>5, <1>6, <1>7, <2>1, <2>2, <2>3 DEF Follows
  <1> QED  BY <1>8 DEF Runs, p

LEMMA Entries ==
  \A lock \in Names : /\ Rd(lock) \in Named /\ Rd(lock).lock = lock /\ Rd(lock).mode = "read"
                      /\ Wr(lock) \in Named /\ Wr(lock).lock = lock /\ Wr(lock).mode = "write"
  BY DEF Rd, Wr, Named

LEMMA NameList ==
  /\ "db" \in Names /\ "other" \in Names /\ "table" \in Names /\ "key" \in Names
  /\ "parent" \in Names /\ "row_space" \in Names /\ "page" \in Names
  BY DEF Names

\* Loading a page, reading a row and placing one ask for the map and for pages,
\* and keep nothing (table.rs:517-595, 844-858, 1117-1227).
LEMMA PageParts ==
  ASSUME NEW h \in Stacks, NEW d, d = Len(h), NEW kind, Open(kind, h, "row_space")
  PROVE  /\ Runs(ensure_page_resident(d), h, kind)
         /\ Runs(ReadRow(d), h, kind)
         /\ Runs(insert_row_into_page(d), h, kind)
         /\ Runs(flush_all_pages(d), h, kind)
         /\ Runs(W("row_space", d) \o WriteAllPages(d + 1), h, kind)
  <1>1. Open(kind, h, "page")
    BY OpenHigher, Ranks, NameList
  <1>2. Runs(R("row_space", d), h, kind) /\ Runs(W("row_space", d), h, kind)
    BY Plain, NameList
  <1>3. Runs(ReadPage(d), h, kind) /\ Runs(WritePage(d), h, kind)
    BY <1>1, OnePage
  <1>4. Runs(EnterPage(d), h, kind)
    BY <1>2, <1>3, Optional, InTurn DEF EnterPage
  <1>5. Runs(ensure_page_resident(d), h, kind)
    BY <1>2, <1>4, Optional, InTurn DEF ensure_page_resident
  <1>6. Runs(ReadRow(d), h, kind)
    BY <1>3, <1>5, InTurn DEF ReadRow
  <1>7. Runs(insert_row_into_page(d), h, kind)
    <2>1. Runs(Maybe(EnterPage(d) \o WritePage(d)), h, kind)
      BY <1>3, <1>4, InTurn, Optional
    <2>2. Runs(R("row_space", d) \o WritePage(d), h, kind)
      BY <1>2, <1>3, InTurn
    <2> QED  BY <2>1, <2>2, InTurn DEF insert_row_into_page
  <1>8. ASSUME NEW x \in {Rd("row_space"), Wr("row_space")}
        PROVE  Runs(WriteAllPages(d + 1), Append(h, x), kind)
    <2>1. x \in Named /\ x.lock = "row_space"
      BY Entries, NameList
    <2>2. Append(h, x) \in Stacks /\ Len(Append(h, x)) = d + 1
          /\ Open(kind, Append(h, x), "page")
      <3>1. Rank(x.lock) < Rank("page")
        BY <2>1, Ranks
      <3> QED  BY <1>1, <2>1, <3>1, Push, NameList
    <2> QED  BY <2>2, AllPages
  <1>9. Runs(R("row_space", d) \o WriteAllPages(d + 1), h, kind)
    BY <1>8, Plain, NameList
  <1>10. Runs(W("row_space", d) \o WriteAllPages(d + 1), h, kind)
    BY <1>8, Plain, NameList
  <1> QED  BY <1>5, <1>6, <1>7, <1>9, <1>10 DEF flush_all_pages

\* Index lookups and index updates ask for columns, and for what a row needs
\* (table.rs:940-980, 1013-1031).
LEMMA IndexParts ==
  ASSUME NEW h \in Stacks, NEW d, d = Len(h), NEW kind, Open(kind, h, "key"), Has(h, {"table"})
  PROVE  /\ Runs(Lookup(d), h, kind)
         /\ Runs(W("key", d) \o ReadRow(d + 1), h, kind)
         /\ Runs(update_indexes_for_row(d), h, kind)
         /\ Open(kind, h, "row_space") /\ Open(kind, h, "page") /\ Open(kind, h, "parent")
  <1>1. Open(kind, h, "row_space") /\ Open(kind, h, "page") /\ Open(kind, h, "parent")
    BY OpenHigher, Ranks, NameList
  <1>2. ASSUME NEW x \in {Rd("key"), Wr("key")}
        PROVE  Runs(ReadRow(d + 1), Append(h, x), kind)
    <2>1. x \in Named /\ x.lock = "key"
      BY Entries, NameList
    <2>2. Append(h, x) \in Stacks /\ Len(Append(h, x)) = d + 1
          /\ Open(kind, Append(h, x), "row_space")
      <3>1. Rank(x.lock) < Rank("row_space")
        BY <2>1, Ranks
      <3> QED  BY <1>1, <2>1, <3>1, Push, NameList
    <2> QED  BY <2>2, PageParts
  <1>3. Runs(R("key", d) \o ReadRow(d + 1), h, kind)
    BY <1>2, Plain, NameList
  <1>4. Runs(W("key", d) \o ReadRow(d + 1), h, kind)
    BY <1>2, Plain, NameList
  <1>5. Runs(W("key", d), h, kind)
    BY Plain, NameList
  <1>6. Runs(W("parent", d), h, kind)
    BY <1>1, Plain, NameList
  <1>7. Runs(update_indexes_for_row(d), h, kind)
    BY <1>5, <1>6, InTurn DEF update_indexes_for_row
  <1> QED  BY <1>1, <1>3, <1>4, <1>7 DEF Lookup

LEMMA EmptyStack ==
  ASSUME NEW kind
  PROVE  /\ <<>> \in Stacks /\ Len(<<>>) = 0 /\ ~Has(<<>>, {"key"})
         /\ \A lock : Open(kind, <<>>, lock)
  BY DEF Stacks, Open, Below, Has

\* The locks of the database, and of the database and a table.
Db(m) == Append(<<>>, [lock |-> "db", mode |-> m])
DbTable(m, n) == Append(Db(m), [lock |-> "table", mode |-> n])

LEMMA TopStacks ==
  ASSUME NEW kind, NEW m \in {"read", "write"}, NEW n \in {"read", "write"}
  PROVE  /\ Db(m) \in Stacks /\ Len(Db(m)) = 1
         /\ Open(kind, Db(m), "table") /\ Open(kind, Db(m), "other")
         /\ DbTable(m, n) \in Stacks /\ Len(DbTable(m, n)) = 2
         /\ Open(kind, DbTable(m, n), "key") /\ Has(DbTable(m, n), {"table"})
  <1> DEFINE x == [lock |-> "db", mode |-> m]
             y == [lock |-> "table", mode |-> n]
  <1>1. x \in Named /\ x.lock = "db" /\ y \in Named /\ y.lock = "table"
    BY DEF Named, Names
  <1>2. /\ Rank(x.lock) < Rank("table") /\ Rank(x.lock) < Rank("other")
        /\ Rank(x.lock) < Rank("key") /\ Rank(y.lock) < Rank("key")
    BY <1>1, Ranks
  <1> HIDE DEF x, y
  <1>3. /\ Append(<<>>, x) \in Stacks /\ Len(Append(<<>>, x)) = 1
        /\ Open(kind, Append(<<>>, x), "table") /\ Open(kind, Append(<<>>, x), "other")
        /\ Open(kind, Append(<<>>, x), "key")
    <2>1. \A lock \in Names : Rank(x.lock) < Rank(lock) =>
             Append(<<>>, x) \in Stacks /\ Len(Append(<<>>, x)) = 0 + 1
             /\ Open(kind, Append(<<>>, x), lock)
      BY <1>1, EmptyStack, Push
    <2> QED  BY <1>2, <2>1, NameList
  <1>4. /\ Append(Db(m), y) \in Stacks /\ Len(Append(Db(m), y)) = 2
        /\ Open(kind, Append(Db(m), y), "key") /\ Has(Append(Db(m), y), {"table"})
    <2>1. Db(m) \in Stacks /\ Len(Db(m)) = 1 /\ Open(kind, Db(m), "key")
      BY <1>3 DEF Db, x
    <2>2. Append(Db(m), y) \in Stacks /\ Len(Append(Db(m), y)) = 1 + 1
          /\ Open(kind, Append(Db(m), y), "key")
      BY <1>1, <1>2, <2>1, Push, NameList
    <2>3. Has(Append(Db(m), y), {"table"})
      BY <1>1, <2>1, Grow
    <2> QED  BY <2>2, <2>3
  <1> QED  BY <1>3, <1>4 DEF Db, DbTable, x, y

\* In a nested request everything may be asked for.
LEMMA NestedOpen ==
  ASSUME NEW kind, NEW h \in Stacks, NEW x \in Named,
         \/ NestedStack(kind, h)
         \/ kind \in {"update", "sort"} /\ x.lock = "page"
         \/ kind \in {"foreign_key_other", "foreign_key_self"}
               /\ x.lock = "parent" /\ x.mode = "read"
         \/ kind = "create_table_self" /\ x.lock = "other" /\ x.mode = "write"
  PROVE  /\ Append(h, x) \in Stacks /\ Len(Append(h, x)) = Len(h) + 1
         /\ NestedStack(kind, Append(h, x))
         /\ \A lock : Open(kind, Append(h, x), lock)
         /\ Has(h, {"table"}) => Has(Append(h, x), {"table"})
  <1>1. /\ Append(h, x) \in Stacks /\ Len(Append(h, x)) = Len(h) + 1 /\ Len(h) \in Nat
        /\ Append(h, x)[Len(h) + 1] = x
        /\ NestedStack(kind, h) => NestedStack(kind, Append(h, x))
        /\ Has(h, {"table"}) => Has(Append(h, x), {"table"})
    BY Grow
  <1>2. Len(h) + 1 \in 1..Len(Append(h, x))
    BY <1>1
  <1>3. NestedStack(kind, Append(h, x))
    BY <1>1, <1>2 DEF NestedStack, Has
  <1> QED  BY <1>1, <1>3 DEF Open

\* A statement runs if its body does, under the two locks it keeps.
LEMMA StatementRuns ==
  ASSUME NEW kind, NEW body, Runs(body, DbTable("read", "read"), kind)
  PROVE  Runs(Statement(body), <<>>, kind)
  <1>1. Append(<<>>, Rd("db")) = Db("read") /\ Append(Db("read"), Rd("table")) = DbTable("read", "read")
    BY DEF Db, DbTable, Rd
  <1>2. Runs(R("table", 1) \o body, Db("read"), kind)
    <2>1. Db("read") \in Stacks /\ 1 = Len(Db("read")) /\ Open(kind, Db("read"), "table")
      BY TopStacks
    <2>2. "table" \in Names \ {"page"} /\ "table" # "key"
      BY DEF Names
    <2> QED  BY <1>1, <2>1, <2>2, Plain
  <1>3. Runs(R("db", 0) \o (R("table", 1) \o body), <<>>, kind)
    <2>1. "db" \in Names \ {"page"} /\ "db" # "key"
      BY DEF Names
    <2> QED  BY <1>1, <1>2, <2>1, EmptyStack, Plain
  <1> QED  BY <1>3 DEF Statement

-----------------------------------------------------------------------------
(* The operations                                                          *)

\* The statements (table.rs:1264-1378, 1732-1829).
LEMMA StatementsRun ==
  /\ Runs(search, <<>>, "search") /\ Runs(sort, <<>>, "sort")
  /\ Runs(insert_row, <<>>, "insert") /\ Runs(delete_row, <<>>, "delete")
  /\ Runs(update_row, <<>>, "update")
  <1> DEFINE h == DbTable("read", "read")
  <1>1. h \in Stacks /\ 2 = Len(h) /\ Has(h, {"table"}) /\ \A kind : Open(kind, h, "key")
    BY TopStacks
  <1> HIDE DEF h
  <1>2. \A kind : Runs(Lookup(2), h, kind) /\ Runs(update_indexes_for_row(2), h, kind)
                  /\ Open(kind, h, "row_space") /\ Open(kind, h, "page")
    BY <1>1, IndexParts
  <1>3. \A kind : Runs(ensure_page_resident(2), h, kind) /\ Runs(ReadRow(2), h, kind)
                  /\ Runs(insert_row_into_page(2), h, kind)
    BY <1>1, <1>2, PageParts
  <1>4. Rd("page") \in Named /\ Rd("page").lock = "page"
        /\ Wr("page") \in Named /\ Wr("page").lock = "page"
    BY Entries, NameList
  <1>5. Runs(search, <<>>, "search")
    <2>1. Runs(Maybe(Lookup(2)) \o ReadRow(2), h, "search")
      BY <1>1, <1>2, <1>3, Optional, InTurn
    <2> QED  BY <2>1, StatementRuns DEF search, h
  <1>6. Runs(sort, <<>>, "sort")
    <2> DEFINE g == Append(h, Rd("page"))
    <2>1. g \in Stacks /\ 3 = Len(g) /\ Open("sort", g, "row_space")
      <3>1. g \in Stacks /\ Len(g) = 2 + 1 /\ Open("sort", g, "row_space")
        BY <1>1, <1>4, NestedOpen
      <3> QED  BY <1>1, <3>1
    <2> HIDE DEF g
    <2>2. Runs(ReadRow(3), g, "sort")
      BY <2>1, PageParts
    <2>3. Runs(ReadPage(2) \o ReadRow(3), h, "sort")
      BY <1>1, <1>2, <2>2, OnePage DEF g
    <2>4. Runs(ensure_page_resident(2) \o (ReadPage(2) \o ReadRow(3)), h, "sort")
      BY <1>1, <1>3, <2>3, InTurn
    <2> QED  BY <2>4, StatementRuns DEF sort, h
  <1>7. Runs(insert_row, <<>>, "insert")
    <2>1. Runs(insert_row_into_page(2) \o update_indexes_for_row(2), h, "insert")
      BY <1>1, <1>2, <1>3, InTurn
    <2>2. Runs(Lookup(2) \o (insert_row_into_page(2) \o update_indexes_for_row(2)), h, "insert")
      BY <1>1, <1>2, <2>1, InTurn
    <2> QED  BY <2>2, StatementRuns DEF insert_row, h
  <1>8. Runs(delete_row, <<>>, "delete")
    <2>1. Runs(WritePage(2), h, "delete")
      BY <1>1, <1>2, OnePage
    <2>2. Runs(ensure_page_resident(2) \o WritePage(2), h, "delete")
      BY <1>1, <1>3, <2>1, InTurn
    <2> QED  BY <2>2, StatementRuns DEF delete_row, h
  <1>9. Runs(update_row, <<>>, "update")
    <2> DEFINE g == Append(h, Wr("page"))
    <2>1. g \in Stacks /\ 3 = Len(g) /\ Open("update", g, "key") /\ Has(g, {"table"})
      <3>1. g \in Stacks /\ Len(g) = 2 + 1 /\ Open("update", g, "key") /\ Has(g, {"table"})
        BY <1>1, <1>4, NestedOpen
      <3> QED  BY <1>1, <3>1
    <2> HIDE DEF g
    <2>2. Runs(Lookup(3), g, "update")
      BY <2>1, IndexParts
    <2>3. Runs(WritePage(2) \o Lookup(3), h, "update")
      BY <1>1, <1>2, <2>2, OnePage DEF g
    <2>4. Runs((WritePage(2) \o Lookup(3)) \o update_indexes_for_row(2), h, "update")
      BY <1>1, <1>2, <2>3, InTurn
    <2>5. Runs(ensure_page_resident(2)
                 \o ((WritePage(2) \o Lookup(3)) \o update_indexes_for_row(2)), h, "update")
      BY <1>1, <1>3, <2>4, InTurn
    <2> QED  BY <2>5, StatementRuns DEF update_row, h
  <1> QED  BY <1>5, <1>6, <1>7, <1>8, <1>9

\* The foreign key checks (database.rs:177-199).
LEMMA ForeignKeysRun ==
  /\ Runs(foreign_key_other, <<>>, "foreign_key_other")
  /\ Runs(foreign_key_self, <<>>, "foreign_key_self")
  <1> DEFINE F == {"foreign_key_other", "foreign_key_self"}
             h == DbTable("read", "read")
             h3 == Append(h, Rd("parent"))
             h4 == Append(h3, Rd("db"))
             h5 == Append(h4, Rd("table"))
  <1>0. Rd("parent") \in Named /\ Rd("parent").lock = "parent" /\ Rd("parent").mode = "read"
        /\ Rd("db") \in Named /\ Rd("table") \in Named
    BY Entries, NameList
  <1>1. h \in Stacks /\ 2 = Len(h) /\ Has(h, {"table"}) /\ \A kind \in F : Open(kind, h, "parent")
    BY TopStacks, IndexParts
  <1> HIDE DEF h
  <1>2. /\ h3 \in Stacks /\ 3 = Len(h3) /\ Has(h3, {"table"})
        /\ \A kind \in F : NestedStack(kind, h3) /\ \A lock : Open(kind, h3, lock)
    <2>1. \A kind \in F : /\ h3 \in Stacks /\ Len(h3) = 2 + 1 /\ Has(h3, {"table"})
                          /\ NestedStack(kind, h3) /\ \A lock : Open(kind, h3, lock)
      BY <1>0, <1>1, NestedOpen
    <2>2. "foreign_key_self" \in F
      OBVIOUS
    <2> HIDE DEF h3, F
    <2> QED  BY <1>1, <2>1, <2>2
  <1> HIDE DEF h3
  <1>3. /\ h4 \in Stacks /\ 4 = Len(h4) /\ Has(h4, {"table"})
        /\ \A kind \in F : NestedStack(kind, h4) /\ \A lock : Open(kind, h4, lock)
    <2>1. \A kind \in F : /\ h4 \in Stacks /\ Len(h4) = 3 + 1 /\ Has(h4, {"table"})
                          /\ NestedStack(kind, h4) /\ \A lock : Open(kind, h4, lock)
      BY <1>0, <1>2, NestedOpen
    <2>2. "foreign_key_self" \in F
      OBVIOUS
    <2> HIDE DEF h4, F
    <2> QED  BY <1>2, <2>1, <2>2
  <1> HIDE DEF h4
  <1>4. /\ h5 \in Stacks /\ 5 = Len(h5) /\ Has(h5, {"table"})
        /\ \A kind \in F : NestedStack(kind, h5) /\ \A lock : Open(kind, h5, lock)
    <2>1. \A kind \in F : /\ h5 \in Stacks /\ Len(h5) = 4 + 1 /\ Has(h5, {"table"})
                          /\ NestedStack(kind, h5) /\ \A lock : Open(kind, h5, lock)
      BY <1>0, <1>3, NestedOpen
    <2>2. "foreign_key_self" \in F
      OBVIOUS
    <2> HIDE DEF h5, F
    <2> QED  BY <1>3, <2>1, <2>2
  <1> HIDE DEF h5
  <1>5. {"parent", "db", "table", "other"} \subseteq Names \ {"page"}
    BY DEF Names
  <1>6. ASSUME NEW kind \in F, NEW q, Runs(q, h4, kind)
        PROVE  Runs(Statement(R("parent", 2) \o (R("db", 3) \o q)), <<>>, kind)
    <2>1. Runs(R("db", 3) \o q, h3, kind)
      BY <1>2, <1>5, <1>6, Plain DEF h4
    <2>2. Runs(R("parent", 2) \o (R("db", 3) \o q), h, kind)
      BY <1>1, <1>5, <2>1, Plain DEF h3
    <2> QED  BY <2>2, StatementRuns DEF h
  <1>7. Runs(Maybe(R("table", 4)) \o R("other", 4), h4, "foreign_key_other")
    <2>1. Runs(R("table", 4), h4, "foreign_key_other") /\ Runs(R("other", 4), h4, "foreign_key_other")
      BY <1>3, <1>5, Plain
    <2> QED  BY <1>3, <2>1, Optional, InTurn
  <1>8. Runs(R("table", 4) \o Lookup(5), h4, "foreign_key_self")
    <2>1. Runs(Lookup(5), h5, "foreign_key_self")
      BY <1>4, IndexParts
    <2> QED  BY <1>3, <1>5, <2>1, Plain DEF h5
  <1> QED  BY <1>6, <1>7, <1>8 DEF foreign_key_other, foreign_key_self

\* What runs under the database's write lock (pg_wire.rs:181-208, 739-784,
\* table.rs:2008-2030).
LEMMA WritersRun ==
  /\ Runs(bookkeeping, <<>>, "bookkeeping")
  /\ Runs(create_table_other, <<>>, "create_table_other")
  /\ Runs(create_table_self, <<>>, "create_table_self")
  /\ Runs(rollback_transaction, <<>>, "rollback")
  <1>1. {"db", "other", "table"} \subseteq Names \ {"page"}
    BY DEF Names
  <1>2. Append(<<>>, Wr("db")) = Db("write")
        /\ Append(Db("write"), Wr("table")) = DbTable("write", "write")
    BY DEF Db, DbTable, Wr
  <1>3. \A kind : Db("write") \in Stacks /\ 1 = Len(Db("write"))
                  /\ Open(kind, Db("write"), "table") /\ Open(kind, Db("write"), "other")
    BY TopStacks
  <1>4. ASSUME NEW kind, NEW q, Runs(q, Db("write"), kind)
        PROVE  Runs(W("db", 0) \o q, <<>>, kind)
    BY <1>1, <1>2, <1>4, EmptyStack, Plain
  <1>5. Runs(bookkeeping, <<>>, "bookkeeping")
    BY <1>1, EmptyStack, Plain DEF bookkeeping
  <1> DEFINE g == Append(Db("write"), Wr("other"))
  <1>6. Wr("other") \in Named /\ Wr("other").lock = "other" /\ Wr("other").mode = "write"
    BY Entries, NameList
  <1>7. Runs(create_table_other, <<>>, "create_table_other")
    <2>1. Rank(Wr("other").lock) < Rank("table")
      BY <1>6, Ranks
    <2>2. g \in Stacks /\ 2 = Len(g) /\ Open("create_table_other", g, "table")
      <3>1. Db("write") \in Stacks /\ 1 = Len(Db("write"))
            /\ Open("create_table_other", Db("write"), "table")
        BY <1>3
      <3>2. "table" \in Names
        BY NameList
      <3>3. g \in Stacks /\ Len(g) = Len(Db("write")) + 1
            /\ Open("create_table_other", g, "table")
        BY <1>6, <2>1, <3>1, <3>2, Push
      <3> DEFINE a == Len(Db("write"))
                 b == Len(g)
      <3>4. a = 1 /\ b = a + 1
        BY <3>1, <3>3, Zenon
      <3> HIDE DEF a, b
      <3>5. 2 = b
        BY <3>4
      <3> QED  BY <3>3, <3>5, Zenon DEF b
    <2> HIDE DEF g
    <2>3. Runs(R("table", 2), g, "create_table_other")
      BY <1>1, <2>2, Plain
    <2>4. Runs(W("other", 1) \o R("table", 2), Db("write"), "create_table_other")
      BY <1>1, <1>3, <2>3, Plain DEF g
    <2> QED  BY <1>4, <2>4 DEF create_table_other
  <1>8. Runs(create_table_self, <<>>, "create_table_self")
    <2>1. g \in Stacks /\ 2 = Len(g) /\ Open("create_table_self", g, "other")
      <3>1. g \in Stacks /\ Len(g) = 1 + 1 /\ Open("create_table_self", g, "other")
        BY <1>3, <1>6, NestedOpen
      <3> QED  BY <1>3, <3>1
    <2> HIDE DEF g
    <2>2. Runs(R("other", 2), g, "create_table_self")
      BY <1>1, <2>1, Plain
    <2>3. Runs(W("other", 1) \o R("other", 2), Db("write"), "create_table_self")
      BY <1>1, <1>3, <2>2, Plain DEF g
    <2> QED  BY <1>4, <2>3 DEF create_table_self
  <1>9. Runs(rollback_transaction, <<>>, "rollback")
    <2> DEFINE h == DbTable("write", "write")
    <2>1. h \in Stacks /\ 2 = Len(h) /\ Open("rollback", h, "key") /\ Has(h, {"table"})
      BY TopStacks
    <2> HIDE DEF h
    <2>2. Runs(update_indexes_for_row(2), h, "rollback") /\ Open("rollback", h, "row_space")
      BY <2>1, IndexParts
    <2>3. Runs(flush_all_pages(2), h, "rollback")
      BY <2>1, <2>2, PageParts
    <2>4. Runs(update_indexes_for_row(2) \o flush_all_pages(2), h, "rollback")
      BY <2>1, <2>2, <2>3, InTurn
    <2>5. Runs(W("table", 1) \o (update_indexes_for_row(2) \o flush_all_pages(2)),
               Db("write"), "rollback")
      BY <1>1, <1>2, <1>3, <2>4, Plain DEF h
    <2> QED  BY <1>4, <2>5 DEF rollback_transaction
  <1> QED  BY <1>5, <1>7, <1>8, <1>9

\* CREATE INDEX: the request for the column under a page is made with the
\* table's write lock held (table.rs:879-915).
LEMMA CreateIndexRuns == Runs(create_column_index, <<>>, "create_index")
  <1> DEFINE h == Append(<<>>, Wr("table"))
             g == Append(h, Rd("page"))
             kind == "create_index"
  <1>1. {"db", "key", "table"} \subseteq Names \ {"page"}
    BY DEF Names
  <1>2. Wr("table") \in Named /\ Wr("table").lock = "table" /\ Wr("table").mode = "write"
        /\ Rd("page") \in Named /\ Rd("page").lock = "page"
    BY Entries, NameList
  <1>3. h \in Stacks /\ 1 = Len(h) /\ Open(kind, h, "key")
    <2>1. Rank(Wr("table").lock) < Rank("key")
      BY <1>2, Ranks
    <2>2. h \in Stacks /\ Len(h) = 0 + 1 /\ Open(kind, h, "key")
      BY <1>2, <2>1, EmptyStack, Push, NameList
    <2> QED  BY <2>2
  <1>4. h[1] = Wr("table") /\ Has(h, {"table"}) /\ ~Has(h, {"key"})
    <2>1. h[0 + 1] = Wr("table") /\ Has(h, {"table"}) /\ ~Has(h, {"key"})
      BY <1>2, EmptyStack, Grow, ZenonT(40)
    <2> QED  BY <2>1
  <1> HIDE DEF h
  <1>5. g \in Stacks /\ 2 = Len(g) /\ g[1] = Wr("table") /\ Has(g, {"table"}) /\ ~Has(g, {"key"})
    <2>1. g \in Stacks /\ Len(g) = 1 + 1
      <3>1. g \in Stacks /\ Len(g) = Len(h) + 1
        BY <1>2, <1>3, Grow
      <3> QED  BY <1>3, <3>1, Zenon
    <2>3. g[1] = h[1]
      <3>1. \A i \in 1..Len(h) : g[i] = h[i]
        BY <1>2, <1>3, Grow
      <3>2. 1 \in 1..Len(h)
        BY <1>3
      <3> QED  BY <3>1, <3>2
    <2>2. Has(g, {"table"}) /\ ~Has(g, {"key"})
      <3>1. \A locks : Has(g, locks) <=> Has(h, locks) \/ Rd("page").lock \in locks
        BY <1>2, <1>3, Grow
      <3>2. Rd("page").lock \notin {"key"}
        BY <1>2
      <3> QED  BY <1>4, <3>1, <3>2
    <2> HIDE DEF g
    <2> QED  BY <1>4, <2>1, <2>2, <2>3
  <1> HIDE DEF g
  <1>6. GateStack(g, "key")
    <2>1. 1 \in 1..Len(g)
      BY <1>5
    <2> QED  BY <1>2, <1>5, <2>1 DEF GateStack
  <1>7. Runs(W("key", 2), g, kind)
    BY <1>1, <1>5, <1>6, Plain
  <1>8. Open(kind, h, "row_space") /\ Open(kind, h, "page")
    BY <1>3, <1>4, IndexParts
  <1>9. Runs(ReadPage(1) \o W("key", 2), h, kind)
    BY <1>3, <1>7, <1>8, OnePage DEF g
  <1>10. Runs(ensure_page_resident(1) \o (ReadPage(1) \o W("key", 2)), h, kind)
    BY <1>3, <1>8, <1>9, PageParts, InTurn
  <1>11. Runs(W("key", 1), h, kind)
    BY <1>1, <1>3, <1>4, Plain
  <1>12. Runs(W("key", 1) \o (ensure_page_resident(1) \o (ReadPage(1) \o W("key", 2))), h, kind)
    BY <1>3, <1>10, <1>11, InTurn
  <1>13. Runs(W("table", 0) \o (W("key", 1)
                \o (ensure_page_resident(1) \o (ReadPage(1) \o W("key", 2)))), <<>>, kind)
    BY <1>1, <1>12, EmptyStack, Plain DEF h
  <1>14. Runs(R("db", 0), <<>>, kind)
    BY <1>1, EmptyStack, Plain
  <1> QED  BY <1>13, <1>14, EmptyStack, InTurn DEF create_column_index

\* The vacuum (database.rs:291-314, table.rs:1883-2006).
LEMMA VacuumRuns == Runs(auto_vacuum, <<>>, "vacuum")
  <1> DEFINE kind == "vacuum"
             w == DbTable("read", "write")
             r == DbTable("read", "read")
  <1>1. {"db", "table", "row_space", "key"} \subseteq Names \ {"page"}
    BY DEF Names
  <1>2. Append(<<>>, Rd("db")) = Db("read") /\ Append(Db("read"), Wr("table")) = w
        /\ Append(Db("read"), Rd("table")) = r
    BY DEF Db, DbTable, Wr, Rd
  <1>3. Db("read") \in Stacks /\ 1 = Len(Db("read")) /\ Open(kind, Db("read"), "table")
    BY TopStacks
  <1>4. ASSUME NEW h \in {w, r}
        PROVE  /\ h \in Stacks /\ 2 = Len(h)
               /\ Runs(ensure_page_resident(2), h, kind) /\ Runs(flush_all_pages(2), h, kind)
               /\ Runs(W("row_space", 2) \o WriteAllPages(2 + 1), h, kind)
               /\ Runs(W("key", 2) \o ReadRow(2 + 1), h, kind)
    <2>1. h \in Stacks /\ 2 = Len(h) /\ Open(kind, h, "key") /\ Has(h, {"table"})
      BY TopStacks
    <2>2. Runs(W("key", 2) \o ReadRow(2 + 1), h, kind) /\ Open(kind, h, "row_space")
      BY <2>1, IndexParts
    <2> QED  BY <2>1, <2>2, PageParts
  <1> HIDE DEF w, r
  <1>5. Runs(prune(2), w, kind)
    <2>1. Runs(ensure_page_resident(2) \o flush_all_pages(2), w, kind)
      BY <1>4, InTurn
    <2>2. Runs((W("row_space", 2) \o WriteAllPages(2 + 1)) \o flush_all_pages(2), w, kind)
      BY <1>4, InTurn
    <2>3. Runs((W("key", 2) \o ReadRow(2 + 1))
                 \o ((W("row_space", 2) \o WriteAllPages(2 + 1)) \o flush_all_pages(2)), w, kind)
      BY <1>4, <2>2, InTurn
    <2> QED  BY <1>4, <2>1, <2>3, InTurn DEF prune
  <1>6. Runs(Maybe(W("table", 1) \o prune(2)), Db("read"), kind)
    <2>1. Runs(W("table", 1) \o prune(2), Db("read"), kind)
      BY <1>1, <1>2, <1>3, <1>5, Plain
    <2> QED  BY <1>3, <2>1, Optional
  <1>7. Runs(R("table", 1) \o flush_all_pages(2), Db("read"), kind)
    BY <1>1, <1>2, <1>3, <1>4, Plain
  <1>8. Runs(Maybe(W("table", 1) \o prune(2)) \o (R("table", 1) \o flush_all_pages(2)),
             Db("read"), kind)
    BY <1>3, <1>6, <1>7, InTurn
  <1> QED  BY <1>1, <1>2, <1>8, EmptyStack, Plain DEF auto_vacuum

\* Every operation follows its stacks.
LEMMA EveryOperationRuns == \A kind \in Kinds : Runs(Script[kind], <<>>, kind)
  BY StatementsRun, ForeignKeysRun, WritersRun, CreateIndexRuns, VacuumRuns DEF Kinds, Script

-----------------------------------------------------------------------------
(* The threads                                                             *)

\* The stack at each request of an operation.
Trace(kind) == CHOOSE st : Follows(st, Script[kind], <<>>, kind)

LEMMA Traced == \A kind \in Kinds : Follows(Trace(kind), Script[kind], <<>>, kind)
  BY EveryOperationRuns DEF Runs, Trace

\* A request of a script, and its stack.
LEMMA ScriptFacts ==
  ASSUME NEW kind \in Kinds
  PROVE  /\ Len(Script[kind]) \in Nat /\ Len(Script[kind]) > 0
         /\ \A n \in 1..Len(Script[kind]) :
              /\ Script[kind][n] \in Steps /\ Trace(kind)[n] \in Stacks
              /\ Script[kind][n].keep = Len(Trace(kind)[n])
              /\ Allowed(kind, Trace(kind)[n], Script[kind][n].lock)
         /\ Trace(kind)[1] = <<>>
  <1>1. Follows(Trace(kind), Script[kind], <<>>, kind)
    BY Traced
  <1>2. Script[kind] \in Seq(Steps) /\ Trace(kind) \in Seq(Stacks)
        /\ Len(Script[kind]) = Len(Trace(kind))
    BY <1>1 DEF Follows
  <1>3. \A n \in 1..Len(Script[kind]) : Script[kind][n] \in Steps /\ Trace(kind)[n] \in Stacks
    BY <1>2
  <1> QED  BY <1>1, <1>2, <1>3 DEF Follows

\* What follows a request keeps a part of its stack and of its lock.
LEMMA NextStack ==
  ASSUME NEW kind \in Kinds, NEW n \in 1..Len(Script[kind]), NEW m \in After(kind, n)
  PROVE  /\ m \in 1..(Len(Script[kind]) + 1)
         /\ m <= Len(Script[kind]) =>
              Prefix(Trace(kind)[m], Append(Trace(kind)[n], Entry(Script[kind][n])))
  <1> DEFINE s == Script[kind]
             st == Trace(kind)
  <1>1. Follows(st, s, <<>>, kind)
    BY Traced
  <1>2. /\ Len(s) \in Nat /\ \A i \in 1..Len(s) : s[i] \in Steps /\ st[i] \in Stacks
    BY ScriptFacts
  <1> HIDE DEF s, st
  <1>3. \/ m = n + 1
        \/ n < Len(s) /\ s[n + 1].skip > 0 /\ m = n + 1 + s[n + 1].skip
    BY DEF After, s
  <1>4. n < Len(s) => Prefix(st[n + 1], Append(st[n], Entry(s[n])))
    BY <1>1 DEF Follows, s
  <1>5. CASE m = n + 1
    BY <1>2, <1>4, <1>5 DEF s, st
  <1>6. CASE n < Len(s) /\ s[n + 1].skip > 0 /\ m = n + 1 + s[n + 1].skip
    <2> DEFINE k == n + 1
    <2>1. k \in 1..Len(s) /\ k \in Nat
      BY <1>2, <1>6 DEF s
    <2>2. s[k].skip \in Nat /\ s[k].skip > 0 /\ m = k + s[k].skip
      BY <1>2, <1>6, <2>1 DEF Steps
    <2>3. /\ k + s[k].skip <= Len(s) + 1
          /\ k + s[k].skip <= Len(s) => Prefix(st[k + s[k].skip], st[k])
      BY <1>1, <2>1, <2>2 DEF Follows
    <2>4. m \in 1..(Len(s) + 1)
      BY <1>2, <2>1, <2>2, <2>3
    <2>5. ASSUME m <= Len(s) PROVE Prefix(st[m], Append(st[n], Entry(s[n])))
      <3>1. m \in 1..Len(s)
        BY <1>2, <2>4, <2>5
      <3>2. Prefix(st[m], st[k])
        BY <2>2, <2>3, <2>5
      <3>3. Prefix(st[k], Append(st[n], Entry(s[n])))
        BY <1>4, <1>6
      <3>4. st[m] \in Stacks /\ st[k] \in Stacks /\ Append(st[n], Entry(s[n])) \in Stacks
        <4>1. n \in 1..Len(s)
          BY DEF s
        <4> QED  BY <1>2, <2>1, <3>1, <4>1, EntryType, Grow
      <3> QED  BY <3>2, <3>3, <3>4, PrefixTransitive
    <2> QED  BY <2>4, <2>5 DEF s, st
  <1> QED  BY <1>3, <1>5, <1>6

\* The locks themselves.
LockSet == ((Names \ {"page"}) \X {0}) \cup ({"page"} \X Pages)
Held == [lock : LockSet, mode : {"read", "write"}]

\* Thread t holds the locks of its stack.
OnTrack(t) ==
    /\ pc[t] \in 1..(Len(Script[job[t]]) + 1)
    /\ want[t] \in Wanted(job[t], pc[t])
    /\ Len(held[t]) = Kept(job[t], pc[t])
    /\ pc[t] <= Len(Script[job[t]]) =>
         \A i \in 1..Len(held[t]) :
            /\ held[t][i].lock[1] = Trace(job[t])[pc[t]][i].lock
            /\ held[t][i].mode = Trace(job[t])[pc[t]][i].mode

\* Nobody has a lock that another holds for writing, and nobody has it twice.
Exclusive ==
    \A t, u \in Threads : \A i \in 1..Len(held[t]), j \in 1..Len(held[u]) :
        held[t][i].lock = held[u][j].lock /\ held[t][i].mode = "write" => t = u /\ i = j

LockTypes ==
    /\ job \in [Threads -> Kinds] /\ pc \in [Threads -> Nat]
    /\ held \in [Threads -> Seq(Held)] /\ want \in [Threads -> LockSet \cup {Nothing}]
    /\ queued \subseteq Threads

\* Who has a column has its table.
ColumnsUnderTables ==
    \A t \in Threads : \A i \in 1..Len(held[t]) :
        held[t][i].lock[1] = "key" => \E j \in 1..(i - 1) : held[t][j].lock[1] = "table"

\* The inductive invariant.
LockInv ==
    /\ LockTypes /\ Exclusive /\ ColumnsUnderTables
    /\ \A t \in Threads : OnTrack(t)
    /\ \A t \in queued : want[t] # Nothing /\ Mode(t) = "write"

LEMMA WantedType ==
  ASSUME NEW kind \in Kinds, NEW n \in Nat \ {0}, NEW w \in Wanted(kind, n)
  PROVE  /\ w \in LockSet \cup {Nothing}
         /\ w # Nothing <=> n <= Len(Script[kind])
         /\ w # Nothing => w \in LockSet /\ w[1] = Script[kind][n].lock
  <1>1. Len(Script[kind]) \in Nat
    BY ScriptFacts
  <1>2. CASE n > Len(Script[kind])
    BY <1>1, <1>2 DEF Wanted
  <1>3. CASE n <= Len(Script[kind])
    <2>1. n \in 1..Len(Script[kind])
      BY <1>1, <1>3
    <2> DEFINE step == Script[kind][n]
    <2>2. step \in Steps
      BY <2>1, ScriptFacts
    <2>3. PICK i \in step.ids : w = <<step.lock, i>>
      BY <1>1, <1>3 DEF Wanted
    <2>4. step.lock \in Names /\ (IF step.lock = "page" THEN i \in Pages ELSE i = 0)
      BY <2>2, <2>3 DEF Steps
    <2> HIDE DEF step
    <2>5. w \in LockSet /\ w[1] = step.lock
      BY <2>3, <2>4 DEF LockSet
    <2>6. w # Nothing
      BY <2>3, <2>4 DEF Nothing, Names
    <2> QED  BY <1>3, <2>5, <2>6 DEF step
  <1> QED  BY <1>1, <1>2, <1>3

\* Every thread begins with nothing held.
LEMMA InitInv == Init => LockInv
  <1> SUFFICES ASSUME Init PROVE LockInv
    OBVIOUS
  <1>1. job \in [Threads -> Kinds] /\ pc = [t \in Threads |-> 1]
        /\ held = [t \in Threads |-> <<>>] /\ queued = {}
    BY DEF Init
  <1>2. \A t \in Threads : want[t] \in Wanted(job[t], 1)
    BY DEF Init
  <1>3. \A t \in Threads : want[t] \in LockSet \cup {Nothing}
    BY <1>1, <1>2, WantedType
  <1>4. want \in [Threads -> LockSet \cup {Nothing}]
    <2>1. want = [t \in Threads |-> want[t]]
      BY DEF Init
    <2> QED  BY <1>3, <2>1
  <1>5. LockTypes
    BY <1>1, <1>4 DEF LockTypes
  <1>6. Exclusive
    BY <1>1 DEF Exclusive
  <1>8. ColumnsUnderTables
    BY <1>1 DEF ColumnsUnderTables
  <1>7. ASSUME NEW t \in Threads PROVE OnTrack(t)
    <2>1. /\ job[t] \in Kinds /\ Len(Script[job[t]]) \in Nat /\ Len(Script[job[t]]) > 0
          /\ Trace(job[t])[1] = <<>>
      BY <1>1, ScriptFacts
    <2>2. 1 \in 1..Len(Script[job[t]])
      BY <2>1
    <2>3. Script[job[t]][1].keep = 0
      BY <2>1, <2>2, ScriptFacts
    <2>4. pc[t] = 1 /\ held[t] = <<>>
      BY <1>1
    <2>5. Kept(job[t], 1) = 0
      BY <2>1, <2>3 DEF Kept
    <2> QED  BY <1>2, <2>1, <2>4, <2>5 DEF OnTrack
  <1> QED  BY <1>1, <1>5, <1>6, <1>7, <1>8 DEF LockInv

\* What a thread that takes a lock holds afterwards.
LEMMA AcquireHeld ==
  ASSUME LockInv, NEW t \in Threads, Acquire(t)
  PROVE  /\ job' = job /\ queued' = queued \ {t}
         /\ \A u \in Threads : u # t => held'[u] = held[u] /\ pc'[u] = pc[u] /\ want'[u] = want[u]
         /\ held' \in [Threads -> Seq(Held)] /\ pc' \in [Threads -> Nat]
         /\ want' \in [Threads -> LockSet \cup {Nothing}]
         /\ want[t] \in LockSet /\ Mode(t) \in {"read", "write"}
         /\ \A i \in 1..Len(held'[t]) :
               \/ i \in 1..Len(held[t]) /\ held'[t][i] = held[t][i]
               \/ i = Len(held[t]) + 1 /\ held'[t][i] = [lock |-> want[t], mode |-> Mode(t)]
         /\ OnTrack(t)'
  <1> DEFINE k == job[t]
             s == Script[k]
             n == pc[t]
             e == [lock |-> want[t], mode |-> Mode(t)]
             g == Append(held[t], e)
  <1>1. /\ k \in Kinds /\ n \in Nat /\ held[t] \in Seq(Held) /\ OnTrack(t)
        /\ job \in [Threads -> Kinds] /\ pc \in [Threads -> Nat]
        /\ held \in [Threads -> Seq(Held)] /\ want \in [Threads -> LockSet \cup {Nothing}]
    BY DEF LockInv, LockTypes
  <1>2. PICK m \in After(k, n) :
          /\ pc' = [pc EXCEPT ![t] = m]
          /\ held' = [held EXCEPT ![t] = SubSeq(g, 1, Kept(k, m))]
          /\ \E w \in Wanted(k, m) : want' = [want EXCEPT ![t] = w]
    BY DEF Acquire
  <1>3. PICK w \in Wanted(k, m) : want' = [want EXCEPT ![t] = w]
    BY <1>2
  <1>4. want[t] # Nothing /\ queued' = queued \ {t} /\ job' = job
    BY DEF Acquire
  <1>5. n \in 1..Len(s) /\ Len(s) \in Nat /\ want[t] \in LockSet /\ want[t][1] = s[n].lock
    <2>1. n \in 1..(Len(s) + 1) /\ want[t] \in Wanted(k, n) /\ Len(s) \in Nat
      BY <1>1, ScriptFacts DEF OnTrack
    <2>2. n \in Nat \ {0}
      BY <2>1
    <2> QED  BY <1>1, <1>4, <2>1, <2>2, WantedType
  <1>6. s[n] \in Steps /\ Trace(k)[n] \in Stacks /\ s[n].keep = Len(Trace(k)[n])
    BY <1>1, <1>5, ScriptFacts
  <1>7. Mode(t) = s[n].mode /\ Mode(t) \in {"read", "write"}
    BY <1>6 DEF Mode, Steps
  <1>8. e \in Held
    BY <1>5, <1>7 DEF Held
  <1> HIDE DEF e
  <1>9. g \in Seq(Held) /\ Len(g) = Len(held[t]) + 1 /\ Len(held[t]) \in Nat
        /\ (\A i \in 1..Len(held[t]) : g[i] = held[t][i]) /\ g[Len(held[t]) + 1] = e
    BY <1>1, <1>8
  <1>10. Len(held[t]) = Len(Trace(k)[n])
    BY <1>1, <1>5, <1>6 DEF OnTrack, Kept
  <1>11. m \in 1..(Len(s) + 1)
         /\ (m <= Len(s) => Prefix(Trace(k)[m], Append(Trace(k)[n], Entry(s[n]))))
    BY <1>1, <1>5, NextStack
  <1>12. m \in Nat \ {0} /\ w \in LockSet \cup {Nothing}
    BY <1>1, <1>3, <1>5, <1>11, WantedType
  <1> DEFINE y == Append(Trace(k)[n], Entry(s[n]))
  <1>13. y \in Stacks /\ Len(y) = Len(Trace(k)[n]) + 1
         /\ (\A i \in 1..Len(Trace(k)[n]) : y[i] = Trace(k)[n][i])
         /\ y[Len(Trace(k)[n]) + 1] = Entry(s[n])
    <2>1. Trace(k)[n] \in Stacks /\ Entry(s[n]) \in Named
      BY <1>6, EntryType
    <2> DEFINE a == Trace(k)[n]
               x == Entry(s[n])
    <2> HIDE DEF a, x
    <2>2. a \in Stacks /\ x \in Named
      BY <2>1 DEF a, x
    <2>3. Append(a, x) \in Stacks /\ Len(Append(a, x)) = Len(a) + 1
          /\ (\A i \in 1..Len(a) : Append(a, x)[i] = a[i]) /\ Append(a, x)[Len(a) + 1] = x
      BY <2>2, Grow
    <2> QED  BY <2>3 DEF a, x
  <1>14. \A i \in 1..Len(g) : g[i].lock[1] = y[i].lock /\ g[i].mode = y[i].mode
    <2> SUFFICES ASSUME NEW i \in 1..Len(g)
                 PROVE  g[i].lock[1] = y[i].lock /\ g[i].mode = y[i].mode
      OBVIOUS
    <2> HIDE DEF g, y
    <2>1. CASE i \in 1..Len(held[t])
      <3>1. held[t][i].lock[1] = Trace(k)[n][i].lock /\ held[t][i].mode = Trace(k)[n][i].mode
        BY <1>1, <1>5, <2>1 DEF OnTrack
      <3> QED  BY <1>9, <1>10, <1>13, <2>1, <3>1
    <2>2. CASE i = Len(held[t]) + 1
      <3>1. g[i] = e /\ y[i] = Entry(s[n])
        BY <1>9, <1>10, <1>13, <2>2
      <3> QED  BY <1>5, <1>7, <3>1 DEF e, Entry
    <2> QED  BY <1>9, <2>1, <2>2
  <1>15. Kept(k, m) \in 0..Len(g)
         /\ (m <= Len(s) => Kept(k, m) = Len(Trace(k)[m]) /\ Prefix(Trace(k)[m], y))
    <2>1. CASE m > Len(s)
      BY <1>5, <1>9, <1>11, <2>1 DEF Kept
    <2>2. CASE m <= Len(s)
      <3>1. m \in 1..Len(s)
        BY <1>5, <1>11, <2>2
      <3>2. Trace(k)[m] \in Stacks /\ s[m].keep = Len(Trace(k)[m]) /\ Len(Trace(k)[m]) \in Nat
        <4>1. Trace(k)[m] \in Stacks /\ s[m].keep = Len(Trace(k)[m])
          BY <1>1, <3>1, ScriptFacts
        <4> QED  BY <4>1 DEF Stacks
      <3>3. Kept(k, m) = Len(Trace(k)[m])
        BY <1>5, <2>2, <3>1, <3>2 DEF Kept
      <3>4. Len(Trace(k)[m]) <= Len(y)
        BY <1>11, <2>2 DEF Prefix
      <3> HIDE DEF g, y
      <3>5. Len(y) = Len(g)
        BY <1>9, <1>10, <1>13
      <3> QED  BY <1>9, <1>11, <2>2, <3>2, <3>3, <3>4, <3>5 DEF y
    <2> QED  BY <1>5, <1>11, <2>1, <2>2
  <1> DEFINE c == Kept(k, m)
             v == SubSeq(g, 1, c)
  <1> HIDE DEF g
  <1>16. v \in Seq(Held) /\ Len(v) = c /\ c \in 0..Len(g) /\ \A i \in 1..c : v[i] = g[i]
    <2>1. c \in 0..Len(g)
      BY <1>15
    <2> HIDE DEF c
    <2> QED  BY <1>9, <2>1
  <1>17. held'[t] = v /\ pc'[t] = m /\ want'[t] = w /\ job'[t] = k
    BY <1>1, <1>2, <1>3, <1>4 DEF g
  <1>18. /\ held' \in [Threads -> Seq(Held)] /\ pc' \in [Threads -> Nat]
         /\ want' \in [Threads -> LockSet \cup {Nothing}]
         /\ \A u \in Threads : u # t => held'[u] = held[u] /\ pc'[u] = pc[u] /\ want'[u] = want[u]
    <2>1. held' = [held EXCEPT ![t] = v]
      BY <1>2 DEF g
    <2> HIDE DEF v
    <2> QED  BY <1>1, <1>2, <1>3, <1>12, <1>16, <2>1
  <1> HIDE DEF v, c, y
  <1>19. \A i \in 1..Len(held'[t]) :
               \/ i \in 1..Len(held[t]) /\ held'[t][i] = held[t][i]
               \/ i = Len(held[t]) + 1 /\ held'[t][i] = e
    BY <1>9, <1>16, <1>17
  <1>20. OnTrack(t)'
    <2>1. pc'[t] \in 1..(Len(Script[job'[t]]) + 1) /\ want'[t] \in Wanted(job'[t], pc'[t])
      BY <1>3, <1>11, <1>17
    <2>2. Len(held'[t]) = Kept(job'[t], pc'[t])
      BY <1>16, <1>17 DEF c
    <2>3. ASSUME m <= Len(s), NEW i \in 1..c
          PROVE  v[i].lock[1] = Trace(k)[m][i].lock /\ v[i].mode = Trace(k)[m][i].mode
      <3>1. c = Len(Trace(k)[m]) /\ Prefix(Trace(k)[m], y)
        BY <1>15, <2>3 DEF c
      <3>2. Trace(k)[m][i] = y[i]
        BY <3>1 DEF Prefix
      <3>3. v[i] = g[i] /\ i \in 1..Len(g)
        BY <1>9, <1>16
      <3> QED  BY <1>14, <3>2, <3>3
    <2> QED  BY <1>16, <1>17, <2>1, <2>2, <2>3 DEF OnTrack
  <1> QED  BY <1>4, <1>5, <1>7, <1>18, <1>19, <1>20 DEF e

\* The stack of a thread that waits.
LEMMA Waiting ==
  ASSUME LockInv, NEW t \in Threads, want[t] # Nothing
  PROVE  LET st == Trace(job[t])[pc[t]]
             lock == Script[job[t]][pc[t]].lock
         IN /\ job[t] \in Kinds /\ lock \in Names /\ want[t][1] = lock /\ want[t] \in LockSet
            /\ st \in Stacks /\ Len(held[t]) = Len(st) /\ Allowed(job[t], st, lock)
            /\ \A i \in 1..Len(st) : /\ i \in DOMAIN held[t] /\ held[t][i] \in Held
                                     /\ held[t][i].lock[1] = st[i].lock
                                     /\ held[t][i].mode = st[i].mode
            /\ DOMAIN held[t] = 1..Len(st)
  <1> DEFINE k == job[t]
             n == pc[t]
             s == Script[k]
  <1>1. k \in Kinds /\ held[t] \in Seq(Held) /\ OnTrack(t)
    BY DEF LockInv, LockTypes
  <1>2. Len(s) \in Nat /\ n \in 1..(Len(s) + 1) /\ want[t] \in Wanted(k, n)
    BY <1>1, ScriptFacts DEF OnTrack
  <1>3. n \in Nat \ {0}
    BY <1>2
  <1>4. n \in 1..Len(s) /\ want[t] \in LockSet /\ want[t][1] = s[n].lock
    BY <1>1, <1>2, <1>3, WantedType
  <1>5. s[n] \in Steps /\ Trace(k)[n] \in Stacks /\ s[n].keep = Len(Trace(k)[n])
        /\ Allowed(k, Trace(k)[n], s[n].lock)
    BY <1>1, <1>4, ScriptFacts
  <1>6. s[n].lock \in Names
    BY <1>5 DEF Steps
  <1>7. Len(held[t]) = Len(Trace(k)[n])
    BY <1>1, <1>2, <1>4, <1>5 DEF OnTrack, Kept
  <1>8. \A i \in 1..Len(held[t]) : held[t][i].lock[1] = Trace(k)[n][i].lock
                                   /\ held[t][i].mode = Trace(k)[n][i].mode
    BY <1>1, <1>4 DEF OnTrack
  <1>9. DOMAIN held[t] = 1..Len(held[t]) /\ \A i \in 1..Len(held[t]) : held[t][i] \in Held
    BY <1>1
  <1> QED  BY <1>1, <1>4, <1>5, <1>6, <1>7, <1>8, <1>9

\* A thread takes a lock only if nobody, itself included, has it in a
\* conflicting mode.
LEMMA AcquireInv ==
  ASSUME LockInv, NEW t \in Threads, Acquire(t)
  PROVE  LockInv'
  <1>1. /\ job' = job /\ queued' = queued \ {t}
        /\ \A u \in Threads : u # t => held'[u] = held[u] /\ pc'[u] = pc[u] /\ want'[u] = want[u]
        /\ held' \in [Threads -> Seq(Held)] /\ pc' \in [Threads -> Nat]
        /\ want' \in [Threads -> LockSet \cup {Nothing}]
        /\ Mode(t) \in {"read", "write"}
        /\ OnTrack(t)'
    BY AcquireHeld
  <1> DEFINE e == [lock |-> want[t], mode |-> Mode(t)]
  <1>2. \A i \in 1..Len(held'[t]) :
               \/ i \in 1..Len(held[t]) /\ held'[t][i] = held[t][i]
               \/ i = Len(held[t]) + 1 /\ held'[t][i] = e
    BY AcquireHeld
  <1>3. LockTypes'
    BY <1>1 DEF LockTypes, LockInv
  <1>4. \A u \in Threads : OnTrack(u)'
    <2>1. ASSUME NEW u \in Threads, u # t PROVE OnTrack(u)'
      <3>1. OnTrack(u)
        BY DEF LockInv
      <3> QED  BY <1>1, <2>1, <3>1 DEF OnTrack
    <2> QED  BY <1>1, <2>1
  <1>5. \A u \in queued' : want'[u] # Nothing /\ Mode(u)' = "write"
    <2> SUFFICES ASSUME NEW u \in queued' PROVE want'[u] # Nothing /\ Mode(u)' = "write"
      OBVIOUS
    <2>1. u \in queued /\ u # t /\ u \in Threads
      BY <1>1 DEF LockInv, LockTypes
    <2>2. want[u] # Nothing /\ Mode(u) = "write"
      BY <2>1 DEF LockInv
    <2> QED  BY <1>1, <2>1, <2>2 DEF Mode
  <1>6. \A u \in Threads : \A j \in 1..Len(held[u]) :
           held[u][j].lock = want[t] => held[u][j].mode = "read" /\ Mode(t) = "read"
    <2> SUFFICES ASSUME NEW u \in Threads, NEW j \in 1..Len(held[u]), held[u][j].lock = want[t]
                 PROVE  held[u][j].mode = "read" /\ Mode(t) = "read"
      OBVIOUS
    <2>1. want[t] # Nothing /\ ~Blocks(u, t)
      BY DEF Acquire
    <2>2. held[u] \in Seq(Held)
      BY DEF LockInv, LockTypes
    <2>3. j \in DOMAIN held[u] /\ held[u][j] \in Held
      BY <2>2
    <2>4. held[u][j].mode \in {"read", "write"}
      BY <2>3 DEF Held
    <2>5. ~Holds(u, want[t], IF Mode(t) = "read" THEN {"write"} ELSE {"read", "write"})
      BY <2>1 DEF Blocks
    <2> QED  BY <2>3, <2>4, <2>5 DEF Holds
  <1>7. Exclusive'
    <2> SUFFICES ASSUME NEW a \in Threads, NEW b \in Threads,
                        NEW i \in 1..Len(held'[a]), NEW j \in 1..Len(held'[b]),
                        held'[a][i].lock = held'[b][j].lock, held'[a][i].mode = "write"
                 PROVE  a = b /\ i = j
      BY DEF Exclusive
    <2>1. \/ i \in 1..Len(held[a]) /\ held'[a][i] = held[a][i]
          \/ a = t /\ i = Len(held[t]) + 1 /\ held'[a][i] = e
      BY <1>1, <1>2
    <2>2. \/ j \in 1..Len(held[b]) /\ held'[b][j] = held[b][j]
          \/ b = t /\ j = Len(held[t]) + 1 /\ held'[b][j] = e
      BY <1>1, <1>2
    <2>3. e.lock = want[t] /\ e.mode = Mode(t)
      OBVIOUS
    <2> HIDE DEF e
    <2>4. CASE i \in 1..Len(held[a]) /\ held'[a][i] = held[a][i]
      <3>1. CASE j \in 1..Len(held[b]) /\ held'[b][j] = held[b][j]
        BY <2>4, <3>1 DEF LockInv, Exclusive
      <3>2. CASE b = t /\ j = Len(held[t]) + 1 /\ held'[b][j] = e
        BY <1>6, <2>3, <2>4, <3>2
      <3> QED  BY <2>2, <3>1, <3>2
    <2>5. CASE a = t /\ i = Len(held[t]) + 1 /\ held'[a][i] = e
      <3>1. CASE j \in 1..Len(held[b]) /\ held'[b][j] = held[b][j]
        BY <1>6, <2>3, <2>5, <3>1
      <3>2. CASE b = t /\ j = Len(held[t]) + 1 /\ held'[b][j] = e
        BY <2>5, <3>2
      <3> QED  BY <2>2, <3>1, <3>2
    <2> QED  BY <2>1, <2>4, <2>5
  <1>8. ColumnsUnderTables'
    <2> SUFFICES ASSUME NEW a \in Threads, NEW i \in 1..Len(held'[a]),
                        held'[a][i].lock[1] = "key"
                 PROVE  \E j \in 1..(i - 1) : held'[a][j].lock[1] = "table"
      BY DEF ColumnsUnderTables
    <2>1. CASE a # t
      <3>1. held'[a] = held[a]
        BY <1>1, <2>1
      <3>2. ColumnsUnderTables
        BY DEF LockInv
      <3>3. \E j \in 1..(i - 1) : held[a][j].lock[1] = "table"
        BY <3>1, <3>2 DEF ColumnsUnderTables
      <3> QED  BY <3>1, <3>3
    <2>2. CASE a = t
      <3>1. Len(held[t]) \in Nat /\ Len(held'[t]) \in Nat
        BY <1>1 DEF LockInv, LockTypes
      <3>2. \A j \in 1..(i - 1) : j \in 1..Len(held[t]) => held'[t][j] = held[t][j]
        <4> SUFFICES ASSUME NEW j \in 1..(i - 1), j \in 1..Len(held[t])
                     PROVE  held'[t][j] = held[t][j]
          OBVIOUS
        <4>1. j \in 1..Len(held'[t]) /\ j # Len(held[t]) + 1
          BY <2>2, <3>1
        <4> QED  BY <1>2, <4>1
      <3>3. \E j \in 1..(i - 1) : j \in 1..Len(held[t]) /\ held[t][j].lock[1] = "table"
        <4>1. CASE i \in 1..Len(held[t]) /\ held'[t][i] = held[t][i]
          <5>1. \E j \in 1..(i - 1) : held[t][j].lock[1] = "table"
            BY <2>2, <4>1 DEF LockInv, ColumnsUnderTables
          <5>2. \A j \in 1..(i - 1) : j \in 1..Len(held[t])
            BY <3>1, <4>1
          <5> QED  BY <5>1, <5>2
        <4>2. CASE i = Len(held[t]) + 1 /\ held'[t][i] = e
          <5> DEFINE st == Trace(job[t])[pc[t]]
          <5>0. e.lock = want[t]
            OBVIOUS
          <5>1. want[t] # Nothing /\ want[t][1] = "key"
            <6> HIDE DEF e
            <6> QED  BY <2>2, <4>2, <5>0 DEF Acquire
          <5>2. /\ Len(held[t]) = Len(st) /\ Allowed(job[t], st, "key")
                /\ \A j \in 1..Len(st) : held[t][j].lock[1] = st[j].lock
            BY <5>1, Waiting
          <5>3. PICK j \in 1..Len(st) : st[j].lock = "table"
            BY <5>2 DEF Allowed, Has
          <5> HIDE DEF st
          <5>4. j \in 1..(i - 1) /\ j \in 1..Len(held[t]) /\ held[t][j].lock[1] = "table"
            BY <3>1, <4>2, <5>2, <5>3
          <5> QED  BY <5>4
        <4> QED  BY <1>2, <2>2, <4>1, <4>2
      <3> QED  BY <2>2, <3>2, <3>3
    <2> QED  BY <2>1, <2>2
  <1> QED  BY <1>3, <1>4, <1>5, <1>7, <1>8 DEF LockInv

LEMMA EnqueueInv ==
  ASSUME LockInv, NEW t \in Threads, Enqueue(t)
  PROVE  LockInv'
  <1>1. /\ want[t] # Nothing /\ Mode(t) = "write" /\ queued' = queued \cup {t}
        /\ job' = job /\ pc' = pc /\ held' = held /\ want' = want
    BY DEF Enqueue
  <1>2. LockTypes' /\ Exclusive' /\ ColumnsUnderTables'
    BY <1>1 DEF LockInv, LockTypes, Exclusive, ColumnsUnderTables
  <1>3. \A u \in Threads : OnTrack(u)'
    BY <1>1 DEF LockInv, OnTrack
  <1>4. \A u \in queued' : want'[u] # Nothing /\ Mode(u)' = "write"
    BY <1>1 DEF LockInv, Mode
  <1> QED  BY <1>2, <1>3, <1>4 DEF LockInv

\* The inductive invariant of the lock model: what a thread holds is the stack
\* of its request, and a lock held for writing has no other holder.
THEOREM LockInvariance == Spec => []LockInv
  <1>1. LockInv /\ [Next]_vars => LockInv'
    <2> SUFFICES ASSUME LockInv, [Next]_vars PROVE LockInv'
      OBVIOUS
    <2>1. CASE Next
      BY <2>1, AcquireInv, EnqueueInv DEF Next
    <2>2. CASE UNCHANGED vars
      <3>1. job' = job /\ pc' = pc /\ held' = held /\ want' = want /\ queued' = queued
        BY <2>2 DEF vars
      <3>2. LockTypes' /\ Exclusive' /\ ColumnsUnderTables'
        BY <3>1 DEF LockInv, LockTypes, Exclusive, ColumnsUnderTables
      <3>3. \A u \in Threads : OnTrack(u)'
        BY <3>1 DEF LockInv, OnTrack
      <3>4. \A u \in queued' : want'[u] # Nothing /\ Mode(u)' = "write"
        BY <3>1 DEF LockInv, Mode
      <3> QED  BY <3>2, <3>3, <3>4 DEF LockInv
    <2> QED  BY <2>1, <2>2
  <1> QED  BY <1>1, InitInv, PTL DEF Spec

-----------------------------------------------------------------------------
(* Deadlocks                                                               *)

\* The stacks in which a request may be out of order are those of Nested.
LEMMA NestedStacks ==
  ASSUME LockInv, NEW t \in Threads, want[t] # Nothing,
         NestedStack(job[t], Trace(job[t])[pc[t]])
  PROVE  Nested(t)
  <1> DEFINE st == Trace(job[t])[pc[t]]
  <1>1. \A i \in 1..Len(st) : /\ i \in DOMAIN held[t] /\ held[t][i] \in Held
                              /\ held[t][i].lock[1] = st[i].lock /\ held[t][i].mode = st[i].mode
    BY Waiting
  <1>2. NestedStack(job[t], st)
    OBVIOUS
  <1> HIDE DEF st
  <1>3. \A x \in LockSet : \/ x[1] = "page" /\ \E p \in Pages : x = <<"page", p>>
                           \/ x[1] # "page" /\ x = <<x[1], 0>>
    BY DEF LockSet
  <1>4. \A i \in 1..Len(st) : held[t][i].lock \in LockSet /\ held[t][i].mode \in {"read", "write"}
    BY <1>1 DEF Held
  <1>5. CASE job[t] \in {"update", "sort"} /\ Has(st, {"page"})
    <2>1. PICK i \in 1..Len(st) : st[i].lock = "page"
      BY <1>5 DEF Has
    <2>2. PICK p \in Pages : held[t][i].lock = <<"page", p>>
      BY <1>1, <1>3, <1>4, <2>1
    <2>3. Holds(t, <<"page", p>>, {"read", "write"})
      BY <1>1, <1>4, <2>2 DEF Holds
    <2> QED  BY <1>5, <2>3 DEF Nested
  <1>6. CASE job[t] \in {"foreign_key_other", "foreign_key_self"}
             /\ \E i \in 1..Len(st) : st[i].lock = "parent" /\ st[i].mode = "read"
    <2>1. PICK i \in 1..Len(st) : st[i].lock = "parent" /\ st[i].mode = "read"
      BY <1>6
    <2>2. held[t][i].lock = <<"parent", 0>> /\ held[t][i].mode = "read"
      BY <1>1, <1>3, <1>4, <2>1
    <2>3. Holds(t, <<"parent", 0>>, {"read"})
      BY <1>1, <2>2 DEF Holds
    <2> QED  BY <1>6, <2>3 DEF Nested
  <1>7. CASE job[t] = "create_table_self"
             /\ \E i \in 1..Len(st) : st[i].lock = "other" /\ st[i].mode = "write"
    <2>1. PICK i \in 1..Len(st) : st[i].lock = "other" /\ st[i].mode = "write"
      BY <1>7
    <2>2. held[t][i].lock = <<"other", 0>> /\ held[t][i].mode = "write"
      BY <1>1, <1>3, <1>4, <2>1
    <2>3. Holds(t, <<"other", 0>>, {"write"})
      BY <1>1, <2>2 DEF Holds
    <2> QED  BY <1>7, <2>3 DEF Nested
  <1> QED  BY <1>2, <1>5, <1>6, <1>7 DEF NestedStack

\* Nobody keeps CREATE INDEX from a column: whoever has the column or queues for
\* it has the table, which CREATE INDEX holds for writing.
LEMMA GateIsOpen ==
  ASSUME LockInv, NEW t \in Threads, want[t] # Nothing, NEW u \in Threads, want[u] # Nothing,
         GateStack(Trace(job[t])[pc[t]], Script[job[t]][pc[t]].lock)
  PROVE  ~Blocks(u, t)
  <1> DEFINE st == Trace(job[t])[pc[t]]
             su == Trace(job[u])[pc[u]]
  <1>1. /\ want[t][1] = Script[job[t]][pc[t]].lock
        /\ DOMAIN held[t] = 1..Len(st)
        /\ \A i \in 1..Len(st) : /\ i \in DOMAIN held[t] /\ held[t][i] \in Held
                                 /\ held[t][i].lock[1] = st[i].lock /\ held[t][i].mode = st[i].mode
    BY Waiting
  <1>2. /\ Allowed(job[u], su, Script[job[u]][pc[u]].lock)
        /\ want[u][1] = Script[job[u]][pc[u]].lock
        /\ DOMAIN held[u] = 1..Len(su) /\ Len(held[u]) = Len(su) /\ Len(su) \in Nat
        /\ \A i \in 1..Len(su) : /\ held[u][i] \in Held /\ held[u][i].lock[1] = su[i].lock
    <2>1. su \in Stacks
      BY Waiting
    <2>2. Len(su) \in Nat
      BY <2>1 DEF Stacks
    <2> QED  BY <2>2, Waiting
  <1>3. GateStack(st, want[t][1])
    BY <1>1
  <1>4. Len(held[t]) = Len(st)
    BY Waiting
  <1> HIDE DEF st, su
  <1>5. want[t][1] = "key" /\ ~Has(st, {"key"})
    BY <1>3 DEF GateStack
  <1>6. PICK i \in 1..Len(st) : st[i].lock = "table" /\ st[i].mode = "write"
    BY <1>3 DEF GateStack
  <1>7. \A x \in Held : x.lock[1] = "table" => x.lock = <<"table", 0>>
    BY DEF Held, LockSet
  <1>8. held[t][i].lock = <<"table", 0>> /\ held[t][i].mode = "write"
    BY <1>1, <1>6, <1>7
  <1>9. ASSUME NEW j \in 1..Len(su), su[j].lock = "table" PROVE u = t
    <2>1. held[u][j].lock = <<"table", 0>>
      BY <1>2, <1>7, <1>9
    <2>2. i \in 1..Len(held[t]) /\ j \in 1..Len(held[u])
      BY <1>2, <1>4
    <2> QED  BY <1>8, <2>1, <2>2 DEF LockInv, Exclusive
  <1>10. ~Holds(u, want[t], IF Mode(t) = "read" THEN {"write"} ELSE {"read", "write"})
    <2> SUFFICES ASSUME NEW j \in 1..Len(su), held[u][j].lock = want[t] PROVE FALSE
      BY <1>2 DEF Holds
    <2>1. held[u][j].lock[1] = "key" /\ j \in 1..Len(held[u])
      BY <1>2, <1>5
    <2>2. PICK l \in 1..(j - 1) : held[u][l].lock[1] = "table"
      BY <2>1 DEF LockInv, ColumnsUnderTables
    <2>3. l \in 1..Len(su)
      BY <1>2
    <2>4. u = t
      BY <1>2, <1>9, <2>2, <2>3
    <2>5. j \in 1..Len(st) /\ st[j].lock = "key"
      BY <1>1, <1>2, <1>4, <2>1, <2>4
    <2> QED  BY <1>5, <2>5 DEF Has
  <1>11. ASSUME u # t, want[u] = want[t] PROVE FALSE
    <2>1. Has(su, {"table"})
      BY <1>2, <1>5, <1>11 DEF Allowed
    <2>2. PICK j \in 1..Len(su) : su[j].lock = "table"
      BY <2>1 DEF Has
    <2> QED  BY <1>9, <1>11, <2>2
  <1> QED  BY <1>10, <1>11 DEF Blocks

\* A thread that waits outside nested requests, and that others may keep waiting,
\* waits for a lock of higher rank than all it holds.
LEMMA HolderWantsMore ==
  ASSUME LockInv, NEW t \in Threads, NEW u \in Threads, want[t] # Nothing, want[u] # Nothing,
         ~Nested(u), NEW v \in Threads, want[v] # Nothing, Blocks(v, u),
         NEW modes, Holds(u, want[t], modes)
  PROVE  Rank(want[t][1]) < Rank(want[u][1])
  <1> DEFINE su == Trace(job[u])[pc[u]]
             lock == Script[job[u]][pc[u]].lock
  <1>1. /\ want[u][1] = lock /\ Allowed(job[u], su, lock) /\ DOMAIN held[u] = 1..Len(su)
        /\ \A i \in 1..Len(su) : held[u][i].lock[1] = su[i].lock
    BY Waiting
  <1>2. ~NestedStack(job[u], su)
    BY NestedStacks
  <1>3. ~GateStack(su, lock)
    BY GateIsOpen
  <1>4. Below(su, lock)
    BY <1>1, <1>2, <1>3 DEF Allowed
  <1>5. PICK i \in DOMAIN held[u] : held[u][i].lock = want[t]
    BY DEF Holds
  <1> QED  BY <1>1, <1>4, <1>5 DEF Below

\* A nonempty set of waiting threads has one whose lock has the highest rank.
LEMMA HighestExists ==
  ASSUME NEW S, S # {}, NEW f(_), \A t \in S : f(t) \in 0..5
  PROVE  \E t \in S : \A u \in S : f(u) <= f(t)
  <1> DEFINE None(n) == \A t \in S : f(t) <= n
  <1>1. None(5)
    OBVIOUS
  <1>2. CASE \E t \in S : f(t) = 5
    BY <1>1, <1>2
  <1>3. CASE None(4) /\ \E t \in S : f(t) = 4
    BY <1>3
  <1>4. CASE None(3) /\ \E t \in S : f(t) = 3
    BY <1>4
  <1>5. CASE None(2) /\ \E t \in S : f(t) = 2
    BY <1>5
  <1>6. CASE None(1) /\ \E t \in S : f(t) = 1
    BY <1>6
  <1>7. CASE None(0)
    BY <1>7
  <1> QED  BY <1>1, <1>2, <1>3, <1>4, <1>5, <1>6, <1>7

\* Whatever threads wait for each other for ever, one of them is inside a nested
\* request (table.rs:1366, 1808; pg_wire.rs:552, 763): all other requests follow
\* one order, for any number of threads and pages.  In a deadlock without nested
\* requests take a thread that waits for a lock of the highest rank.  Who holds
\* that lock waits for one of higher rank; and who only queues for it waits for
\* somebody who holds it.
THEOREM DeadlocksAreNested == Spec => []DeadlockNeedsNesting
  <1>1. LockInv => DeadlockNeedsNesting
    <2> SUFFICES ASSUME LockInv, NEW S \in SUBSET Threads, Deadlocked(S),
                        \A t \in S : ~Nested(t)
                 PROVE  FALSE
      BY DEF DeadlockNeedsNesting
    <2>1. S # {} /\ \A t \in S : \E u \in S : Blocks(u, t)
      BY DEF Deadlocked
    <2>2. \A t \in S : t \in Threads /\ want[t] # Nothing
      BY <2>1 DEF Blocks
    <2> DEFINE f(t) == Rank(want[t][1])
    <2>3. \A t \in S : f(t) \in 0..5
      <3>1. \A t \in S : want[t][1] \in Names
        BY <2>2, Waiting
      <3> QED  BY <3>1, Ranks
    <2>4. PICK t \in S : \A u \in S : f(u) <= f(t)
      <3> HIDE DEF f
      <3> QED  BY <2>1, <2>3, HighestExists
    <2>5. ASSUME NEW u \in S, NEW modes, Holds(u, want[t], modes) PROVE FALSE
      <3>1. PICK v \in S : Blocks(v, u)
        BY <2>1
      <3>2. f(t) < f(u)
        BY <2>2, <2>5, <3>1, HolderWantsMore
      <3>3. f(u) <= f(t) /\ f(u) \in 0..5 /\ f(t) \in 0..5
        BY <2>3, <2>4
      <3> HIDE DEF f
      <3> QED  BY <3>2, <3>3
    <2>6. PICK u \in S : Blocks(u, t)
      BY <2>1
    <2>7. u \in queued /\ want[u] = want[t]
      BY <2>5, <2>6 DEF Blocks
    <2>8. Mode(u) = "write"
      BY <2>7 DEF LockInv
    <2>9. PICK v \in S : Blocks(v, u)
      BY <2>1
    <2>10. Holds(v, want[u], {"read", "write"})
      BY <2>8, <2>9 DEF Blocks
    <2> QED  BY <2>5, <2>7, <2>10
  <1> QED  BY <1>1, LockInvariance, PTL
=============================================================================
