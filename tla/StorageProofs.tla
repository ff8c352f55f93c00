---------------------------- MODULE StorageProofs ----------------------------
(***************************************************************************)
(* Writing partitions, building stores and accounting for memory, for every *)
(* number and size of what they work on: plan_to_object_store keeps the     *)
(* rows of a plan (PartitionFiles), a session is given the store of its own *)
(* location (Stores), and the counters account for the pool (MemoryPool).   *)
(***************************************************************************)
EXTENDS PartitionFiles, Stores, MemoryPool, NatLemmas, SequenceTheorems, TLAPS

----------------------------------------------------------------------------
(***************************************************************************)
(* PartitionFiles                                                          *)
(***************************************************************************)

----------------------------------------------------------------------------
(* Flattening                                                              *)

\* The function that FlattenSeq computes: what the first i sequences make.
Flattens(f, s, n) == f = [i \in 1..n |-> IF i = 1 THEN s[i] ELSE f[i-1] \o s[i]]

\* There is such a function.
LEMMA FlattensExists ==
    ASSUME NEW R, NEW s \in Seq(Seq(R))
    PROVE  \A n \in Nat : \E f : Flattens(f, s, n)
  <1> DEFINE S == {n \in Nat : \E f : Flattens(f, s, n)}
  <1>1. 0 \in S
    <2>1. Flattens([i \in 1..0 |-> s[i]], s, 0)
      BY DEF Flattens
    <2>2. QED
      BY <2>1
  <1>2. ASSUME NEW n \in Nat, n \in S
        PROVE  n + 1 \in S
    <2>1. PICK f : Flattens(f, s, n)
      BY <1>2
    <2> DEFINE g == [i \in 1..(n + 1) |-> IF i = 1 THEN s[i] ELSE f[i-1] \o s[i]]
    <2>2. ASSUME NEW i \in 1..(n + 1), i # 1
          PROVE  g[i-1] = f[i-1]
      <3>1. i - 1 \in 1..n /\ i - 1 \in 1..(n + 1)
        BY <2>2
      <3>2. f[i-1] = IF i - 1 = 1 THEN s[i-1] ELSE f[(i-1)-1] \o s[i-1]
        BY <2>1, <3>1 DEF Flattens
      <3>3. g[i-1] = IF i - 1 = 1 THEN s[i-1] ELSE f[(i-1)-1] \o s[i-1]
        BY <3>1
      <3>4. QED
        BY <3>2, <3>3
    <2>3. Flattens(g, s, n + 1)
      BY <2>2 DEF Flattens
    <2>4. QED
      BY <2>3
  <1>3. \A n \in Nat : n \in S
    <2> HIDE DEF S
    <2>1. QED
      BY <1>1, <1>2, Induction
  <1>4. QED
    BY <1>3

\* What it makes of the beginning does not depend on what follows.
LEMMA FlattensSame ==
    ASSUME NEW s, NEW t, NEW f, NEW g, NEW k \in Nat, NEW n \in Nat, k <= n,
           Flattens(f, s, k), Flattens(g, t, n),
           \A i \in 1..k : s[i] = t[i]
    PROVE  \A i \in 1..k : f[i] = g[i]
  <1> DEFINE S == {i \in Nat : i \in 1..k => f[i] = g[i]}
  <1>1. 0 \in S
    OBVIOUS
  <1>2. ASSUME NEW i \in Nat, i \in S
        PROVE  i + 1 \in S
    <2>1. SUFFICES ASSUME i + 1 \in 1..k
                   PROVE  f[i + 1] = g[i + 1]
      OBVIOUS
    <2>2. i + 1 \in 1..k /\ i + 1 \in 1..n /\ s[i + 1] = t[i + 1]
      BY <2>1
    <2>3. CASE i = 0
      BY <2>2, <2>3 DEF Flattens
    <2>4. CASE i # 0
      <3>1. f[i] = g[i] /\ (i + 1) - 1 = i /\ i + 1 # 1
        BY <1>2, <2>1, <2>4
      <3>2. f[i + 1] = f[(i + 1) - 1] \o s[i + 1] /\ g[i + 1] = g[(i + 1) - 1] \o t[i + 1]
        BY <2>2, <3>1 DEF Flattens
      <3>3. QED
        BY <2>2, <3>1, <3>2
    <2>5. QED
      BY <2>3, <2>4
  <1>3. \A i \in Nat : i \in S
    <2> HIDE DEF S
    <2>1. QED
      BY <1>1, <1>2, Induction
  <1>4. QED
    BY <1>3

\* It makes sequences.
LEMMA FlattensType ==
    ASSUME NEW R, NEW s \in Seq(Seq(R)), NEW f, Flattens(f, s, Len(s))
    PROVE  \A i \in 1..Len(s) : f[i] \in Seq(R)
  <1> DEFINE S == {i \in Nat : i \in 1..Len(s) => f[i] \in Seq(R)}
  <1>1. 0 \in S
    OBVIOUS
  <1>2. ASSUME NEW i \in Nat, i \in S
        PROVE  i + 1 \in S
    <2>1. SUFFICES ASSUME i + 1 \in 1..Len(s)
                   PROVE  f[i + 1] \in Seq(R)
      OBVIOUS
    <2>2. s[i + 1] \in Seq(R)
      BY <2>1
    <2>3. CASE i = 0
      BY <2>1, <2>2, <2>3 DEF Flattens
    <2>4. CASE i # 0
      <3>1. f[i] \in Seq(R) /\ (i + 1) - 1 = i /\ i + 1 # 1
        BY <1>2, <2>1, <2>4
      <3>2. f[i + 1] = f[(i + 1) - 1] \o s[i + 1]
        BY <2>1, <3>1 DEF Flattens
      <3>3. QED
        BY <2>2, <3>1, <3>2
    <2>5. QED
      BY <2>3, <2>4
  <1>3. \A i \in Nat : i \in S
    <2> HIDE DEF S
    <2>1. QED
      BY <1>1, <1>2, Induction
  <1>4. QED
    BY <1>3

\* FlattenSeq is the last value of that function.
LEMMA FlattenValue ==
    ASSUME NEW R, NEW s \in Seq(Seq(R)), s # <<>>
    PROVE  \E f : Flattens(f, s, Len(s)) /\ FlattenSeq(s) = f[Len(s)]
  <1>1. Len(s) \in Nat /\ Len(s) # 0
    OBVIOUS
  <1>2. PICK f : Flattens(f, s, Len(s))
    BY <1>1, FlattensExists
  <1>3. QED
    BY <1>1, <1>2 DEF Flattens, FlattenSeq

LEMMA ConcatFacts ==
    ASSUME NEW R, NEW a \in Seq(R), NEW b \in Seq(R)
    PROVE  /\ a \o b \in Seq(R) /\ Len(a \o b) = Len(a) + Len(b)
           /\ \A i \in 1..(Len(a) + Len(b)) :
                 (a \o b)[i] = IF i <= Len(a) THEN a[i] ELSE b[i - Len(a)]
  OBVIOUS

\* Concatenation is associative.
LEMMA Associative ==
    ASSUME NEW R, NEW a \in Seq(R), NEW b \in Seq(R), NEW c \in Seq(R)
    PROVE  (a \o b) \o c = a \o (b \o c)
  BY ConcatAssociative

LEMMA FlattenEmpty == FlattenSeq(<<>>) = <<>>
  BY DEF FlattenSeq

LEMMA FlattenType ==
    ASSUME NEW R, NEW s \in Seq(Seq(R))
    PROVE  FlattenSeq(s) \in Seq(R)
  <1>1. CASE s = <<>>
    <2>1. <<>> \in Seq(R)
      OBVIOUS
    <2>2. QED
      BY <1>1, <2>1, FlattenEmpty
  <1>2. CASE s # <<>>
    <2>1. PICK f : Flattens(f, s, Len(s)) /\ FlattenSeq(s) = f[Len(s)]
      BY <1>2, FlattenValue
    <2>2. Len(s) \in 1..Len(s)
      BY <1>2
    <2>3. QED
      BY <2>1, <2>2, FlattensType
  <1>3. QED
    BY <1>1, <1>2

\* One sequence more at the end.
LEMMA FlattenAppend ==
    ASSUME NEW R, NEW s \in Seq(Seq(R)), NEW x \in Seq(R)
    PROVE  FlattenSeq(Append(s, x)) = FlattenSeq(s) \o x
  <1>1. PICK t : t = Append(s, x)
    OBVIOUS
  <1>2. /\ t \in Seq(Seq(R)) /\ t # <<>> /\ Len(t) = Len(s) + 1 /\ Len(s) \in Nat
        /\ \A i \in 1..Len(s) : s[i] = t[i]
        /\ t[Len(s) + 1] = x
    BY <1>1
  <1>3. PICK g : Flattens(g, t, Len(t)) /\ FlattenSeq(t) = g[Len(t)]
    BY <1>2, FlattenValue
  <1>4. CASE s = <<>>
    <2>1. Len(t) = 1 /\ t[1] = x
      BY <1>2, <1>4
    <2>2. g[1] = x
      BY <1>3, <2>1 DEF Flattens
    <2>3. <<>> \o x = x
      OBVIOUS
    <2>4. QED
      BY <1>1, <1>3, <1>4, <2>1, <2>2, <2>3, FlattenEmpty
  <1>5. CASE s # <<>>
    <2>1. PICK f : Flattens(f, s, Len(s)) /\ FlattenSeq(s) = f[Len(s)]
      BY <1>5, FlattenValue
    <2>2. Len(s) \in 1..Len(s) /\ Len(t) \in Nat /\ Len(s) <= Len(t)
      BY <1>2, <1>5
    <2>3. f[Len(s)] = g[Len(s)]
      <3>1. Flattens(f, s, Len(s)) /\ Flattens(g, t, Len(t))
        BY <1>3, <2>1
      <3>2. /\ Len(s) \in Nat /\ Len(t) \in Nat /\ Len(s) <= Len(t)
            /\ \A i \in 1..Len(s) : s[i] = t[i]
        BY <1>2, <2>2
      <3>3. \A i \in 1..Len(s) : f[i] = g[i]
        BY <3>1, <3>2, FlattensSame
      <3>4. QED
        BY <2>2, <3>3
    <2>4. g[Len(t)] = g[Len(t) - 1] \o t[Len(t)] /\ Len(t) - 1 = Len(s)
      <3>1. Len(t) \in 1..Len(t) /\ Len(t) # 1 /\ Len(t) - 1 = Len(s)
        BY <1>2, <2>2
      <3>2. QED
        BY <1>3, <3>1 DEF Flattens
    <2>5. QED
      BY <1>1, <1>2, <1>3, <2>1, <2>3, <2>4
  <1>6. QED
    BY <1>4, <1>5

\* The step of the induction for the next lemma.
LEMMA FlattenStep ==
    ASSUME NEW R, NEW u \in Seq(Seq(R)), NEW x \in Seq(R), u # <<>>,
           FlattenSeq(u) = Head(u) \o FlattenSeq(Tail(u))
    PROVE  FlattenSeq(Append(u, x)) = Head(Append(u, x)) \o FlattenSeq(Tail(Append(u, x)))
  <1>1. PICK a, b, rest : a = Head(u) /\ rest = Tail(u) /\ b = FlattenSeq(rest)
    OBVIOUS
  <1>2. /\ a \in Seq(R) /\ rest \in Seq(Seq(R))
        /\ Head(Append(u, x)) = a /\ Tail(Append(u, x)) = Append(rest, x)
    BY <1>1
  <1>3. b \in Seq(R)
    BY <1>1, <1>2, FlattenType
  <1>4. FlattenSeq(Append(u, x)) = FlattenSeq(u) \o x
    BY FlattenAppend
  <1>5. FlattenSeq(Append(rest, x)) = b \o x
    BY <1>1, <1>2, FlattenAppend
  <1>6. (a \o b) \o x = a \o (b \o x)
    <2>1. a \in Seq(R) /\ b \in Seq(R) /\ x \in Seq(R)
      BY <1>2, <1>3
    <2>2. QED
      BY <2>1
  <1>7. FlattenSeq(u) = a \o b
    BY <1>1
  <1>8. QED
    BY <1>2, <1>4, <1>5, <1>6, <1>7

\* One sequence more at the beginning.
LEMMA FlattenHead ==
    ASSUME NEW R, NEW s \in Seq(Seq(R)), s # <<>>
    PROVE  FlattenSeq(s) = Head(s) \o FlattenSeq(Tail(s))
  <1> DEFINE S == {n \in Nat : \A t \in Seq(Seq(R)) : t # <<>> /\ Len(t) = n
                                  => FlattenSeq(t) = Head(t) \o FlattenSeq(Tail(t))}
  <1>1. 0 \in S
    OBVIOUS
  <1>2. ASSUME NEW n \in Nat, n \in S
        PROVE  n + 1 \in S
    <2>1. SUFFICES ASSUME NEW t \in Seq(Seq(R)), t # <<>>, Len(t) = n + 1
                   PROVE  FlattenSeq(t) = Head(t) \o FlattenSeq(Tail(t))
      OBVIOUS
    <2>2. PICK u, x : u = SubSeq(t, 1, n) /\ x = t[n + 1]
      OBVIOUS
    <2>3. /\ u \in Seq(Seq(R)) /\ x \in Seq(R) /\ t = Append(u, x)
          /\ Len(u) = n
      BY <2>1, <2>2
    <2>4. FlattenSeq(t) = FlattenSeq(u) \o x
      BY <2>3, FlattenAppend
    <2>5. CASE u = <<>>
      <3>1. Head(t) = x /\ Tail(t) = <<>>
        BY <2>3, <2>5
      <3>2. <<>> \o x = x /\ x \o <<>> = x
        BY <2>3
      <3>3. QED
        BY <2>4, <2>5, <3>1, <3>2, FlattenEmpty
    <2>6. CASE u # <<>>
      <3>1. FlattenSeq(u) = Head(u) \o FlattenSeq(Tail(u))
        BY <1>2, <2>3, <2>6
      <3>2. QED
        BY <2>3, <2>6, <3>1, FlattenStep
    <2>7. QED
      BY <2>5, <2>6
  <1>3. \A n \in Nat : n \in S
    <2> HIDE DEF S
    <2>1. QED
      BY <1>1, <1>2, Induction
  <1>4. Len(s) \in Nat
    OBVIOUS
  <1>5. QED
    BY <1>3, <1>4

\* More at the end of the last sequence.
LEMMA FlattenLast ==
    ASSUME NEW R, NEW s \in Seq(Seq(R)), s # <<>>, NEW x \in Seq(R)
    PROVE  FlattenSeq([s EXCEPT ![Len(s)] = @ \o x]) = FlattenSeq(s) \o x
  <1>1. PICK u, y, t : /\ u = SubSeq(s, 1, Len(s) - 1) /\ y = s[Len(s)]
                       /\ t = [s EXCEPT ![Len(s)] = @ \o x]
    OBVIOUS
  <1>2. /\ u \in Seq(Seq(R)) /\ y \in Seq(R) /\ y \o x \in Seq(R)
        /\ s = Append(u, y)
    BY <1>1
  <1>3. t = Append(u, y \o x)
    <2>1. Len(s) \in Nat /\ Len(s) # 0 /\ Len(u) = Len(s) - 1 /\ Len(s) \in DOMAIN s
      BY <1>1, <1>2
    <2>2. t \in Seq(Seq(R)) /\ Len(t) = Len(s)
      BY <1>1, <1>2, <2>1
    <2>3. \A i \in 1..Len(s) : t[i] = IF i = Len(s) THEN y \o x ELSE s[i]
      BY <1>1, <2>1
    <2>4. PICK v : v = Append(u, y \o x)
      OBVIOUS
    <2>5. v \in Seq(Seq(R)) /\ Len(v) = Len(s)
      BY <1>2, <2>1, <2>4
    <2>6. \A i \in 1..Len(s) : v[i] = IF i = Len(s) THEN y \o x ELSE u[i]
      BY <1>2, <2>1, <2>4
    <2>7. \A i \in 1..Len(s) : i # Len(s) => u[i] = s[i]
      BY <1>1, <2>1
    <2>8. \A i \in 1..Len(s) : t[i] = v[i]
      BY <2>3, <2>6, <2>7
    <2>9. t = v
      BY <2>2, <2>5, <2>8, SeqEqual
    <2>10. QED
      BY <2>4, <2>9
  <1>4. FlattenSeq(s) = FlattenSeq(u) \o y /\ FlattenSeq(t) = FlattenSeq(u) \o (y \o x)
    BY <1>2, <1>3, FlattenAppend
  <1>5. (FlattenSeq(u) \o y) \o x = FlattenSeq(u) \o (y \o x)
    <2>1. FlattenSeq(u) \in Seq(R) /\ y \in Seq(R) /\ x \in Seq(R)
      BY <1>2, FlattenType
    <2>2. QED
      BY <2>1, Associative
  <1>6. QED
    BY <1>1, <1>4, <1>5

----------------------------------------------------------------------------
(* Writing the files and uploading them                                    *)

Phases == {"next", "fill", "upload", "ok", "error"}
Stages == {"open", "read", "put", "complete", "ok", "error"}

\* Tasks that upload sequences of rows.
TaskType(Row) == [at : Stages, read : Nat, buffer : Seq(Row), eof : Nat, zeros : Nat,
                  parts : Seq(Row)]

\* The parts and the buffer are what was read of the file.  A buffer that is not
\* empty comes from a read that has reset the count of empty reads, and before the
\* end of the file no more of them are counted than came in a row: three are not
\* enough to be taken for the end.
TaskOK(t, file, object) ==
    /\ t.at \in {"open", "read", "put"} =>
          t.read <= Len(file) /\ t.parts \o t.buffer = SubSeq(file, 1, t.read)
    /\ t.at \in {"open", "read"} /\ t.read < Len(file) => t.eof <= t.zeros
    /\ t.at = "open" => t.buffer = <<>>
    /\ t.at = "put" => t.buffer # <<>>
    /\ t.buffer # <<>> => t.eof = 0
    /\ t.zeros <= MaxZeros
    /\ t.at = "complete" => t.parts = file
    /\ t.at = "ok" => object = file

\* The rows of the plan are in the files, the rest of the batch and the batches
\* to come, and the phase says which of these are empty.
WritingOK(Row) ==
    /\ plan \in Seq(Seq(Row)) /\ files \in Seq(Seq(Row)) /\ todo \in Seq(Seq(Row))
    /\ batch \in Seq(Row) /\ size \in Nat /\ pc \in Phases
    /\ files # <<>>
    /\ pc \in {"next", "upload", "ok"} => batch = <<>>
    /\ pc \in {"upload", "ok"} => todo = <<>>
    /\ RowsKept

UploadsOK(Row) ==
    /\ task \in Seq(TaskType(Row)) /\ objects \in Seq(Seq(Row))
    /\ Len(task) = Len(objects) /\ Len(task) <= Len(files)
    /\ pc \in {"next", "fill"} => task = <<>>
    /\ \A i \in DOMAIN task : TaskOK(task[i], files[i], objects[i])
    /\ pc = "ok" => Len(task) = Len(files) /\ \A i \in DOMAIN task : task[i].at = "ok"

FilesInv(Row) == WritingOK(Row) /\ UploadsOK(Row)

LEMMA MinPair ==
    ASSUME NEW a \in Nat, NEW b \in Nat
    PROVE  Min({a, b}) = IF a <= b THEN a ELSE b
  <1>1. \A x \in {a, b} : (\A y \in {a, b} : x <= y) => x = IF a <= b THEN a ELSE b
    OBVIOUS
  <1>2. \E x \in {a, b} : \A y \in {a, b} : x <= y
    OBVIOUS
  <1>3. QED
    BY <1>1, <1>2 DEF Min

\* Two adjacent parts of a sequence.
LEMMA SubSeqJoin ==
    ASSUME NEW Row, NEW file \in Seq(Row), NEW k \in Nat, NEW n \in Nat, k + n <= Len(file)
    PROVE  SubSeq(file, 1, k) \o SubSeq(file, k + 1, k + n) = SubSeq(file, 1, k + n)
  <1>1. PICK more, got, whole : /\ more = SubSeq(file, k + 1, k + n)
                                /\ got = SubSeq(file, 1, k) /\ whole = SubSeq(file, 1, k + n)
    OBVIOUS
  <1>2. more \in Seq(Row) /\ Len(more) = n /\ \A i \in 1..n : more[i] = file[k + i]
    <2>1. more \in Seq(Row) /\ Len(more) = n
      BY <1>1
    <2>2. \A i \in 1..n : more[i] = file[k + i]
      BY <1>1
    <2>3. QED
      BY <2>1, <2>2
  <1>3. got \in Seq(Row) /\ Len(got) = k /\ \A i \in 1..k : got[i] = file[i]
    BY <1>1
  <1>4. whole \in Seq(Row) /\ Len(whole) = k + n /\ \A i \in 1..(k + n) : whole[i] = file[i]
    BY <1>1
  <1>5. PICK sum : sum = got \o more
    OBVIOUS
  <1>6. /\ sum \in Seq(Row) /\ Len(sum) = k + n
        /\ \A i \in 1..(k + n) : sum[i] = IF i <= k THEN got[i] ELSE more[i - k]
    <2>1. more \in Seq(Row) /\ got \in Seq(Row)
      BY <1>2, <1>3
    <2>2. /\ sum \in Seq(Row) /\ Len(sum) = Len(got) + Len(more)
          /\ \A i \in 1..(Len(got) + Len(more)) :
                sum[i] = IF i <= Len(got) THEN got[i] ELSE more[i - Len(got)]
      BY <1>5, <2>1, ConcatFacts
    <2>3. Len(got) = k /\ Len(more) = n
      BY <1>2, <1>3
    <2>4. QED
      BY <2>2, <2>3
  <1>9. ASSUME NEW i \in 1..(k + n)
        PROVE  sum[i] = whole[i]
    <2>1. CASE i <= k
      BY <1>3, <1>4, <1>6, <2>1
    <2>2. CASE ~(i <= k)
      <3>1. i - k \in 1..n /\ k + (i - k) = i
        BY <2>2
      <3>2. more[i - k] = file[i]
        BY <1>2, <3>1
      <3>3. QED
        BY <1>4, <1>6, <2>2, <3>2
    <2>3. QED
      BY <2>1, <2>2
  <1>10. sum = whole
    BY <1>4, <1>6, <1>9, SeqEqual
  <1>11. QED
    BY <1>1, <1>5, <1>10

\* One turn of the loop that reads a file, as ReadBuf has it.
ReadTurn(t, file, n, u) ==
    LET left == Len(file) - t.read
        buffer == t.buffer \o SubSeq(file, t.read + 1, t.read + n)
        got == [t EXCEPT !.read = @ + n, !.buffer = buffer,
                         !.zeros = IF n = 0 /\ left > 0 THEN @ + 1 ELSE 0]
    IN  /\ n \in 0..Min({left, MaxRead}) /\ (n = 0 => left = 0 \/ t.zeros < MaxZeros)
        /\ \/ /\ n = 0 /\ buffer = <<>>
              /\ u = [got EXCEPT !.eof = @ + 1,
                                 !.at = IF t.eof + 1 >= EofLimit THEN "complete" ELSE "read"]
           \/ n # 0 /\ Len(buffer) < MinPart /\ u = [got EXCEPT !.eof = 0]
           \/ /\ buffer # <<>> /\ (n = 0 \/ Len(buffer) >= MinPart)
              /\ u = [got EXCEPT !.at = "put"]

\* A turn keeps the task in order; in particular it does not take the file for
\* read before its end.
LEMMA TurnOK ==
    ASSUME FilesParametersOK, NEW Row, NEW file \in Seq(Row), NEW t \in TaskType(Row), NEW object,
           TaskOK(t, file, object), t.at = "read", NEW n, NEW u, ReadTurn(t, file, n, u)
    PROVE  u \in TaskType(Row) /\ TaskOK(u, file, object)
  <1>1. PICK k, left, buffer : /\ k = t.read /\ left = Len(file) - k
                               /\ buffer = t.buffer \o SubSeq(file, k + 1, k + n)
    OBVIOUS
  <1>2. /\ k \in Nat /\ t.buffer \in Seq(Row) /\ t.parts \in Seq(Row) /\ t.eof \in Nat
        /\ t.zeros \in Nat /\ k <= Len(file) /\ left \in Nat
        /\ t.parts \o t.buffer = SubSeq(file, 1, k)
    BY <1>1 DEF TaskType, TaskOK
  <1>3. MinPart \in Nat /\ MaxRead \in Nat /\ 0 < MaxRead /\ MaxRead < MinPart /\ MaxZeros \in 0..2
    BY DEF FilesParametersOK
  <1>4. n \in Nat /\ n <= left /\ n <= MaxRead /\ (n = 0 => left = 0 \/ t.zeros < MaxZeros)
    <2>1. n \in 0..Min({left, MaxRead}) /\ (n = 0 => left = 0 \/ t.zeros < MaxZeros)
      BY <1>1 DEF ReadTurn
    <2>2. Min({left, MaxRead}) = IF left <= MaxRead THEN left ELSE MaxRead
      BY <1>2, <1>3, MinPair
    <2>3. QED
      BY <1>2, <1>3, <2>1, <2>2
  <1>5. /\ buffer \in Seq(Row) /\ Len(buffer) = Len(t.buffer) + n
        /\ t.parts \o buffer = SubSeq(file, 1, k + n)
    <2>1. k + n <= Len(file)
      BY <1>1, <1>2, <1>4
    <2>2. SubSeq(file, k + 1, k + n) \in Seq(Row) /\ Len(SubSeq(file, k + 1, k + n)) = n
      BY <1>2, <1>4, <2>1
    <2>3. PICK p, q, more : p = t.parts /\ q = t.buffer /\ more = SubSeq(file, k + 1, k + n)
      OBVIOUS
    <2>4. p \in Seq(Row) /\ q \in Seq(Row) /\ more \in Seq(Row) /\ Len(more) = n
      BY <1>2, <2>2, <2>3
    <2>5. p \o (q \o more) = (p \o q) \o more
      <3>1. p \in Seq(Row) /\ q \in Seq(Row) /\ more \in Seq(Row)
        BY <2>4
      <3>2. QED
        BY <3>1, Associative
    <2>6. SubSeq(file, 1, k) \o more = SubSeq(file, 1, k + n)
      BY <1>2, <1>4, <2>1, <2>3, SubSeqJoin
    <2>7. buffer = q \o more /\ p \o q = SubSeq(file, 1, k)
      BY <1>1, <1>2, <2>3
    <2>8. t.parts \o buffer = SubSeq(file, 1, k + n)
      BY <2>3, <2>5, <2>6, <2>7
    <2>9. buffer \in Seq(Row) /\ Len(buffer) = Len(q) + n
      BY <2>4, <2>7, ConcatFacts
    <2>10. QED
      BY <2>3, <2>8, <2>9
  <1>6. PICK z, at, eof : /\ z = (IF n = 0 /\ left > 0 THEN t.zeros + 1 ELSE 0)
                          /\ u \in TaskType(Row) /\ u.at = at /\ u.read = k + n /\ u.buffer = buffer
                          /\ u.eof = eof /\ u.zeros = z /\ u.parts = t.parts
                          /\ \/ /\ n = 0 /\ buffer = <<>> /\ eof = t.eof + 1
                                /\ at = IF t.eof + 1 >= 3 THEN "complete" ELSE "read"
                             \/ n # 0 /\ Len(buffer) < MinPart /\ eof = 0 /\ at = "read"
                             \/ /\ buffer # <<>> /\ (n = 0 \/ Len(buffer) >= MinPart)
                                /\ at = "put" /\ eof = t.eof
    <2>1. PICK z : z = (IF n = 0 /\ left > 0 THEN t.zeros + 1 ELSE 0) /\ z \in Nat
      BY <1>2
    <2>2. PICK got : got = [t EXCEPT !.read = k + n, !.buffer = buffer, !.zeros = z]
      OBVIOUS
    <2>3. got = [t EXCEPT !.read = @ + n, !.buffer = buffer,
                          !.zeros = IF n = 0 /\ left > 0 THEN @ + 1 ELSE 0]
      BY <1>1, <2>1, <2>2 DEF TaskType
    <2>4. \/ /\ n = 0 /\ buffer = <<>>
             /\ u = [got EXCEPT !.eof = @ + 1,
                                !.at = IF t.eof + 1 >= EofLimit THEN "complete" ELSE "read"]
          \/ n # 0 /\ Len(buffer) < MinPart /\ u = [got EXCEPT !.eof = 0]
          \/ buffer # <<>> /\ (n = 0 \/ Len(buffer) >= MinPart) /\ u = [got EXCEPT !.at = "put"]
      BY <1>1, <2>3 DEF ReadTurn
    <2>5. k + n \in Nat
      BY <1>2, <1>4
    <2>6. /\ got \in TaskType(Row) /\ got.at = "read" /\ got.read = k + n /\ got.buffer = buffer
          /\ got.eof = t.eof /\ got.zeros = z /\ got.parts = t.parts /\ t.eof \in Nat
      BY <1>5, <2>1, <2>2, <2>5 DEF TaskType
    <2>7. CASE n = 0 /\ buffer = <<>> /\ u = [got EXCEPT !.eof = @ + 1,
                                !.at = IF t.eof + 1 >= EofLimit THEN "complete" ELSE "read"]
      <3>1. PICK at : at = (IF t.eof + 1 >= 3 THEN "complete" ELSE "read") /\ at \in Stages
        BY DEF Stages
      <3>2. PICK e : e = t.eof + 1 /\ e \in Nat /\ u = [got EXCEPT !.eof = e, !.at = at]
        <4>1. PICK e : e = t.eof + 1 /\ e \in Nat /\ e = got.eof + 1
          BY <2>6
        <4>2. at = IF t.eof + 1 >= EofLimit THEN "complete" ELSE "read"
          BY <3>1 DEF EofLimit
        <4>3. u = [got EXCEPT !.eof = @ + 1, !.at = at]
          BY <2>7, <4>2
        <4>4. [got EXCEPT !.eof = @ + 1, !.at = at] = [got EXCEPT !.eof = e, !.at = at]
          BY <2>6, <4>1 DEF TaskType
        <4>5. QED
          BY <4>1, <4>3, <4>4
      <3>3. /\ u \in TaskType(Row) /\ u.at = at /\ u.read = k + n /\ u.buffer = buffer
            /\ u.eof = e /\ u.zeros = z /\ u.parts = t.parts
        BY <2>6, <3>1, <3>2 DEF TaskType
      <3>4. QED
        BY <2>1, <2>7, <3>1, <3>2, <3>3
    <2>8. CASE n # 0 /\ Len(buffer) < MinPart /\ u = [got EXCEPT !.eof = 0]
      <3>1. /\ u \in TaskType(Row) /\ u.at = "read" /\ u.read = k + n /\ u.buffer = buffer
            /\ u.eof = 0 /\ u.zeros = z /\ u.parts = t.parts
        BY <2>6, <2>8 DEF TaskType
      <3>2. QED
        BY <2>1, <2>8, <3>1
    <2>9. CASE /\ buffer # <<>> /\ (n = 0 \/ Len(buffer) >= MinPart)
               /\ u = [got EXCEPT !.at = "put"]
      <3>1. /\ u \in TaskType(Row) /\ u.at = "put" /\ u.read = k + n /\ u.buffer = buffer
            /\ u.eof = t.eof /\ u.zeros = z /\ u.parts = t.parts
        BY <2>6, <2>9 DEF TaskType, Stages
      <3>2. QED
        BY <2>1, <2>9, <3>1
    <2>10. QED
      BY <2>4, <2>7, <2>8, <2>9
  <1>7. z \in Nat /\ z <= MaxZeros
    BY <1>2, <1>3, <1>4, <1>6
  <1>8. at \in Stages /\ eof \in Nat /\ k + n \in Nat
    BY <1>2, <1>4, <1>6 DEF Stages
  <1>9. u \in TaskType(Row)
    BY <1>6
  <1>10. /\ u.at = at /\ u.read = k + n /\ u.buffer = buffer /\ u.eof = eof /\ u.zeros = z
         /\ u.parts = t.parts
    BY <1>6
  <1>11. k + n <= Len(file)
    BY <1>1, <1>2, <1>4
  <1>12. CASE n = 0 /\ buffer = <<>> /\ eof = t.eof + 1 /\ at = IF t.eof + 1 >= 3 THEN "complete" ELSE "read"
    <2>1. k < Len(file) => t.eof <= t.zeros /\ z = t.zeros + 1 /\ z <= 2
      <3>1. k < Len(file) => t.eof <= t.zeros
        BY <1>1, <1>2 DEF TaskOK
      <3>2. k < Len(file) => left > 0
        BY <1>1, <1>2
      <3>3. QED
        BY <1>2, <1>3, <1>6, <1>7, <1>12, <3>1, <3>2
    <2>2. k + n < Len(file) => eof <= z /\ eof < 3
      BY <1>2, <1>4, <1>12, <2>1
    <2>3. at = "complete" => t.parts = file
      <3>1. SUFFICES ASSUME at = "complete"
                     PROVE  t.parts = file
        OBVIOUS
      <3>2. k + n = Len(file)
        BY <1>2, <1>4, <1>11, <1>12, <2>2, <3>1
      <3>3. PICK p : p = t.parts /\ p \in Seq(Row) /\ p \o <<>> = SubSeq(file, 1, Len(file))
        BY <1>2, <1>5, <1>12, <3>2
      <3>4. p = file
        BY <3>3, ConcatEmptySeq, SubSeqFull
      <3>5. QED
        BY <3>3, <3>4
    <2>4. at \in {"read", "complete"}
      BY <1>12
    <2>5. QED
      BY <1>5, <1>7, <1>9, <1>10, <1>11, <1>12, <2>2, <2>3, <2>4 DEF TaskOK
  <1>13. CASE n # 0 /\ Len(buffer) < MinPart /\ eof = 0 /\ at = "read"
    <2>1. eof <= z
      BY <1>7, <1>13
    <2>2. /\ t.parts \o buffer = SubSeq(file, 1, k + n) /\ z <= MaxZeros
          /\ at = "read" /\ eof = 0
      BY <1>5, <1>7, <1>13
    <2>3. QED
      BY <1>9, <1>10, <1>11, <2>1, <2>2 DEF TaskOK
  <1>14. CASE buffer # <<>> /\ (n = 0 \/ Len(buffer) >= MinPart) /\ at = "put" /\ eof = t.eof
    <2>1. t.buffer # <<>>
      <3>1. SUFFICES ASSUME t.buffer = <<>>
                     PROVE  FALSE
        OBVIOUS
      <3>2. Len(t.buffer) = 0
        BY <3>1
      <3>3. Len(buffer) = n /\ (n = 0 => buffer = <<>>)
        BY <1>4, <1>5, <3>2
      <3>4. QED
        BY <1>3, <1>4, <1>14, <3>3
    <2>2. eof = 0
      BY <1>14, <2>1 DEF TaskOK
    <2>3. QED
      BY <1>5, <1>7, <1>9, <1>10, <1>11, <1>14, <2>2 DEF TaskOK
  <1>15. QED
    BY <1>6, <1>12, <1>13, <1>14

\* The rows that are kept, as one sequence.
LEMMA KeptTypes ==
    ASSUME NEW Row, WritingOK(Row)
    PROVE  /\ FlattenSeq(files) \in Seq(Row) /\ FlattenSeq(todo) \in Seq(Row)
           /\ files[Len(files)] \in Seq(Row) /\ Len(files) \in Nat \ {0}
           /\ size = Len(files[Len(files)])
  BY FlattenType DEF WritingOK, RowsKept, Last

LEMMA FilesInitially ==
    ASSUME FilesParametersOK, NEW Row, Plans \subseteq Seq(Seq(Row)), FilesInit
    PROVE  FilesInv(Row)
  <1>1. /\ plan \in Seq(Seq(Row)) /\ todo = plan /\ batch = <<>> /\ size = 0 /\ pc = "next"
        /\ files = << <<>> >> /\ task = <<>> /\ objects = <<>> /\ max_partition_size \in Nat
    BY DEF FilesInit, FilesParametersOK
  <1>2. files \in Seq(Seq(Row)) /\ files # <<>> /\ Len(files) = 1 /\ files[1] = <<>>
    BY <1>1
  <1>3. FlattenSeq(files) = <<>>
    <2>1. <<>> \in Seq(Seq(Row)) /\ <<>> \in Seq(Row) /\ files = Append(<<>>, <<>>)
      BY <1>1
    <2>2. FlattenSeq(files) = FlattenSeq(<<>>) \o <<>>
      BY <2>1, FlattenAppend
    <2>3. QED
      BY <2>2, FlattenEmpty
  <1>4. (<<>> \o <<>>) \o FlattenSeq(plan) = FlattenSeq(plan)
    <2>1. FlattenSeq(plan) \in Seq(Row)
      BY <1>1, FlattenType
    <2>2. QED
      BY <2>1
  <1>5. RowsKept
    <2>1. todo = plan /\ batch = <<>>
      BY <1>1
    <2>2. FlattenSeq(files) \o batch \o FlattenSeq(todo) = Rows
      BY <1>3, <1>4, <2>1 DEF Rows
    <2>3. size = 0 /\ max_partition_size \in Nat
      BY <1>1
    <2>4. size = Len(Last(files)) /\ size <= max_partition_size
      BY <1>2, <2>3 DEF Last
    <2>5. 1..(Len(files) - 1) = {}
      BY <1>2
    <2>6. QED
      BY <2>2, <2>4, <2>5 DEF RowsKept
  <1>6. WritingOK(Row)
    BY <1>1, <1>2, <1>5 DEF WritingOK, Phases
  <1>7. UploadsOK(Row)
    BY <1>1, <1>2 DEF UploadsOK
  <1>8. QED
    BY <1>6, <1>7 DEF FilesInv

LEMMA FilesTakeBatch ==
    ASSUME FilesParametersOK, NEW Row, FilesInv(Row), TakeBatch
    PROVE  FilesInv(Row)'
  <1>1. /\ pc = "next" /\ todo # <<>> /\ UNCHANGED <<plan, size, files, local, task, objects>>
        /\ \/ pc' = "fill" /\ batch' = Head(todo) /\ todo' = Tail(todo)
           \/ pc' = "error" /\ UNCHANGED <<batch, todo>>
    BY DEF TakeBatch
  <1>2. WritingOK(Row) /\ UploadsOK(Row)
    BY DEF FilesInv
  <1>3. UploadsOK(Row)'
    BY <1>1, <1>2 DEF UploadsOK
  <1>4. CASE pc' = "error" /\ UNCHANGED <<batch, todo>>
    BY <1>1, <1>2, <1>3, <1>4 DEF FilesInv, WritingOK, RowsKept, Rows, Phases
  <1>5. CASE pc' = "fill" /\ batch' = Head(todo) /\ todo' = Tail(todo)
    <2>1. /\ todo \in Seq(Seq(Row)) /\ batch = <<>> /\ FlattenSeq(files) \in Seq(Row)
          /\ FlattenSeq(files) \o batch \o FlattenSeq(todo) = Rows
      BY <1>1, <1>2, KeptTypes DEF WritingOK, RowsKept
    <2>2. batch' \in Seq(Row) /\ todo' \in Seq(Seq(Row))
      BY <1>1, <1>5, <2>1
    <2>3. FlattenSeq(todo) = batch' \o FlattenSeq(todo')
      BY <1>1, <1>5, <2>1, FlattenHead
    <2>4. FlattenSeq(files) \o batch' \o FlattenSeq(todo') = Rows
      <3>1. PICK a, b, c : a = FlattenSeq(files) /\ b = batch' /\ c = FlattenSeq(todo')
        OBVIOUS
      <3>2. a \in Seq(Row) /\ b \in Seq(Row) /\ c \in Seq(Row)
        BY <2>1, <2>2, <3>1, FlattenType
      <3>3. (a \o b) \o c = a \o (b \o c) /\ a \o <<>> = a
        BY <3>2
      <3>4. (a \o <<>>) \o (b \o c) = Rows
        BY <2>1, <2>3, <3>1
      <3>5. QED
        BY <3>1, <3>3, <3>4
    <2>5. QED
      BY <1>1, <1>2, <1>3, <1>5, <2>2, <2>4 DEF FilesInv, WritingOK, RowsKept, Rows, Phases
  <1>6. QED
    BY <1>1, <1>4, <1>5

LEMMA FilesCloseLast ==
    ASSUME FilesParametersOK, NEW Row, FilesInv(Row), CloseLast
    PROVE  FilesInv(Row)'
  BY DEF FilesInv, CloseLast, WritingOK, UploadsOK, RowsKept, Rows, Phases

\* Rows go to the open file: as many as leave it at most full.
LEMMA InLastFacts ==
    ASSUME NEW Row, WritingOK(Row), NEW rows \in Seq(Row)
    PROVE  /\ InLast(rows) \in Seq(Seq(Row)) /\ Len(InLast(rows)) = Len(files)
           /\ FlattenSeq(InLast(rows)) = FlattenSeq(files) \o rows
           /\ InLast(rows)[Len(files)] \in Seq(Row)
           /\ Len(InLast(rows)[Len(files)]) = size + Len(rows)
           /\ \A i \in 1..Len(files) - 1 : InLast(rows)[i] = files[i]
  <1>1. /\ files \in Seq(Seq(Row)) /\ files # <<>> /\ Len(files) \in Nat \ {0}
        /\ files[Len(files)] \in Seq(Row) /\ size = Len(files[Len(files)])
    BY KeptTypes DEF WritingOK
  <1>2. PICK last, new : last = files[Len(files)] /\ new = last \o rows
    OBVIOUS
  <1>3. new \in Seq(Row) /\ Len(new) = size + Len(rows)
    BY <1>1, <1>2, ConcatFacts
  <1>4. InLast(rows) = [files EXCEPT ![Len(files)] = new]
    BY <1>1, <1>2 DEF InLast
  <1>5. /\ InLast(rows) \in Seq(Seq(Row)) /\ Len(InLast(rows)) = Len(files)
        /\ InLast(rows)[Len(files)] = new
        /\ \A i \in 1..Len(files) - 1 : InLast(rows)[i] = files[i]
    BY <1>1, <1>3, <1>4
  <1>6. FlattenSeq(InLast(rows)) = FlattenSeq(files) \o rows
    BY <1>1, FlattenLast DEF InLast
  <1>7. QED
    BY <1>3, <1>5, <1>6

LEMMA FilesRollOver ==
    ASSUME FilesParametersOK, NEW Row, FilesInv(Row), RollOver
    PROVE  FilesInv(Row)'
  <1>1. WritingOK(Row) /\ UploadsOK(Row)
    BY DEF FilesInv
  <1>2. PICK n, rows, rest : /\ n = Leftover /\ rows = SubSeq(batch, 1, n)
                             /\ rest = SubSeq(batch, n + 1, Len(batch))
    OBVIOUS
  <1>3. /\ pc = "fill" /\ Len(batch) > n
        /\ files' = Append(InLast(rows), <<>>) /\ batch' = rest /\ size' = 0
        /\ UNCHANGED <<plan, pc, todo, local, task, objects>>
    BY <1>2 DEF RollOver
  <1>4. /\ batch \in Seq(Row) /\ size \in Nat /\ size <= max_partition_size
        /\ max_partition_size \in Nat /\ n \in Nat /\ size + n = max_partition_size
        /\ files \in Seq(Seq(Row)) /\ Len(files) \in Nat \ {0}
        /\ todo \in Seq(Seq(Row)) /\ FlattenSeq(files) \in Seq(Row) /\ FlattenSeq(todo) \in Seq(Row)
    <2>1. /\ batch \in Seq(Row) /\ size \in Nat /\ size <= max_partition_size
          /\ max_partition_size \in Nat /\ files \in Seq(Seq(Row)) /\ todo \in Seq(Seq(Row))
      BY <1>1 DEF WritingOK, RowsKept, FilesParametersOK
    <2>2. n \in Nat /\ size + n = max_partition_size
      BY <1>2, <2>1 DEF Leftover
    <2>3. QED
      BY <1>1, <2>1, <2>2, KeptTypes
  <1>5. /\ rows \in Seq(Row) /\ Len(rows) = n /\ rest \in Seq(Row)
    BY <1>2, <1>3, <1>4
  <1>6. rows \o rest = batch
    <2>1. Len(batch) \in Nat /\ Len(batch) - n \in Nat /\ n + (Len(batch) - n) = Len(batch)
      BY <1>3, <1>4
    <2>2. PICK m : m = Len(batch) - n
      OBVIOUS
    <2>3. rows \o rest = SubSeq(batch, 1, n) \o SubSeq(batch, n + 1, n + m)
      BY <1>2, <2>1, <2>2
    <2>4. SubSeq(batch, 1, n) \o SubSeq(batch, n + 1, n + m) = SubSeq(batch, 1, n + m)
      <3>1. batch \in Seq(Row) /\ n \in Nat /\ m \in Nat /\ n + m <= Len(batch)
        BY <1>4, <2>1, <2>2
      <3>2. QED
        BY <3>1, SubSeqJoin
    <2>5. SubSeq(batch, 1, Len(batch)) = batch
      BY <1>4, SubSeqFull
    <2>6. QED
      BY <2>1, <2>2, <2>3, <2>4, <2>5
  <1>7. PICK full : full = InLast(rows)
    OBVIOUS
  <1>8. /\ full \in Seq(Seq(Row)) /\ Len(full) = Len(files)
        /\ FlattenSeq(full) = FlattenSeq(files) \o rows
        /\ Len(full[Len(files)]) = max_partition_size
        /\ \A i \in 1..Len(files) - 1 : full[i] = files[i]
    <2>1. /\ full \in Seq(Seq(Row)) /\ Len(full) = Len(files)
          /\ FlattenSeq(full) = FlattenSeq(files) \o rows
          /\ Len(full[Len(files)]) = size + Len(rows)
          /\ \A i \in 1..Len(files) - 1 : full[i] = files[i]
      BY <1>1, <1>5, <1>7, InLastFacts
    <2>2. QED
      BY <1>4, <1>5, <2>1
  <1>9. /\ files' \in Seq(Seq(Row)) /\ Len(files') = Len(files) + 1 /\ files' # <<>>
        /\ files'[Len(files) + 1] = <<>> /\ \A i \in 1..Len(files) : files'[i] = full[i]
    <2>1. full \in Seq(Seq(Row)) /\ <<>> \in Seq(Row) /\ files' = Append(full, <<>>)
      BY <1>3, <1>7, <1>8
    <2>2. /\ files' \in Seq(Seq(Row)) /\ Len(files') = Len(full) + 1 /\ files' # <<>>
          /\ files'[Len(full) + 1] = <<>> /\ \A i \in 1..Len(full) : files'[i] = full[i]
      BY <2>1
    <2>3. QED
      BY <1>8, <2>2
  <1>10. FlattenSeq(files') = FlattenSeq(files) \o rows
    <2>1. <<>> \in Seq(Row) /\ FlattenSeq(files) \o rows \in Seq(Row)
      BY <1>4, <1>5
    <2>2. FlattenSeq(files') = FlattenSeq(full) \o <<>>
      BY <1>3, <1>7, <1>8, <2>1, FlattenAppend
    <2>3. QED
      BY <1>8, <2>1, <2>2, ConcatEmptySeq
  <1>11. FlattenSeq(files') \o batch' \o FlattenSeq(todo') = Rows
    <2>1. PICK a, c : a = FlattenSeq(files) /\ c = FlattenSeq(todo)
      OBVIOUS
    <2>2. a \in Seq(Row) /\ rows \in Seq(Row) /\ rest \in Seq(Row)
      BY <1>4, <1>5, <2>1
    <2>3. (a \o rows) \o rest = a \o (rows \o rest)
      BY <2>2, Associative
    <2>4. (a \o batch) \o c = Rows
      BY <1>1, <1>3, <2>1 DEF WritingOK, RowsKept
    <2>5. QED
      BY <1>3, <1>6, <1>10, <2>1, <2>3, <2>4
  <1>12. ASSUME NEW i \in 1..Len(files') - 1
         PROVE  Len(files'[i]) = max_partition_size
    <2>1. i \in 1..Len(files) /\ files'[i] = full[i]
      BY <1>4, <1>9
    <2>2. CASE i = Len(files)
      BY <1>8, <2>1, <2>2
    <2>3. CASE i # Len(files)
      <3>1. i \in 1..Len(files) - 1
        BY <1>4, <2>1, <2>3
      <3>2. full[i] = files[i]
        BY <1>8, <3>1
      <3>3. QED
        BY <1>1, <2>1, <3>1, <3>2 DEF WritingOK, RowsKept
    <2>4. QED
      BY <2>2, <2>3
  <1>13. size' = Len(Last(files')) /\ size' <= max_partition_size
    <2>1. Len(files'[Len(files')]) = 0
      BY <1>4, <1>9
    <2>2. QED
      BY <1>3, <1>4, <2>1 DEF Last
  <1>14. RowsKept'
    BY <1>3, <1>11, <1>12, <1>13 DEF RowsKept, Rows
  <1>15. WritingOK(Row)'
    BY <1>1, <1>3, <1>5, <1>9, <1>14 DEF WritingOK
  <1>16. UploadsOK(Row)'
    <2>1. task = <<>> /\ objects \in Seq(Seq(Row)) /\ Len(objects) = 0
      BY <1>1, <1>3 DEF UploadsOK
    <2>2. QED
      BY <1>3, <1>4, <1>9, <2>1 DEF UploadsOK
  <1>17. QED
    BY <1>15, <1>16 DEF FilesInv

LEMMA FilesWriteRest ==
    ASSUME FilesParametersOK, NEW Row, FilesInv(Row), WriteRest
    PROVE  FilesInv(Row)'
  <1>1. WritingOK(Row) /\ UploadsOK(Row)
    BY DEF FilesInv
  <1>2. /\ pc = "fill" /\ Len(batch) <= Leftover
        /\ files' = InLast(batch) /\ size' = size + Len(batch) /\ batch' = <<>> /\ pc' = "next"
        /\ UNCHANGED <<plan, todo, local, task, objects>>
    BY DEF WriteRest
  <1>3. /\ batch \in Seq(Row) /\ size \in Nat /\ max_partition_size \in Nat
        /\ Len(batch) \in Nat /\ size + Len(batch) <= max_partition_size
    <2>1. batch \in Seq(Row) /\ size \in Nat /\ max_partition_size \in Nat
      BY <1>1 DEF WritingOK, FilesParametersOK
    <2>2. Len(batch) \in Nat
      BY <2>1
    <2>3. QED
      BY <1>2, <2>1, <2>2 DEF Leftover
  <1>4. FlattenSeq(files) \in Seq(Row) /\ FlattenSeq(todo) \in Seq(Row) /\ Len(files) \in Nat \ {0}
    BY <1>1, KeptTypes
  <1>5. /\ files' \in Seq(Seq(Row)) /\ Len(files') = Len(files)
        /\ FlattenSeq(files') = FlattenSeq(files) \o batch
        /\ Len(files'[Len(files)]) = size + Len(batch)
        /\ \A i \in 1..Len(files) - 1 : files'[i] = files[i]
    BY <1>1, <1>2, <1>3, InLastFacts
  <1>6. FlattenSeq(files') \o batch' \o FlattenSeq(todo') = Rows
    <2>1. PICK a, c : a = FlattenSeq(files) /\ c = FlattenSeq(todo)
      OBVIOUS
    <2>2. a \in Seq(Row) /\ batch \in Seq(Row)
      BY <1>3, <1>4, <2>1
    <2>3. (a \o batch) \o <<>> = a \o batch
      BY <2>2
    <2>4. (a \o batch) \o c = Rows
      BY <1>1, <1>2, <2>1 DEF WritingOK, RowsKept
    <2>5. QED
      BY <1>2, <1>5, <2>1, <2>3, <2>4
  <1>7. \A i \in 1..Len(files') - 1 : Len(files'[i]) = max_partition_size
    BY <1>1, <1>5 DEF WritingOK, RowsKept
  <1>8. size' = Len(Last(files')) /\ size' <= max_partition_size
    BY <1>2, <1>3, <1>5 DEF Last
  <1>9. RowsKept'
    BY <1>2, <1>6, <1>7, <1>8 DEF RowsKept, Rows
  <1>10. size' \in Nat /\ files' # <<>> /\ batch' \in Seq(Row)
    BY <1>2, <1>3, <1>4, <1>5
  <1>11. WritingOK(Row)'
    BY <1>1, <1>2, <1>5, <1>9, <1>10 DEF WritingOK, Phases
  <1>12. UploadsOK(Row)'
    <2>1. task = <<>> /\ objects \in Seq(Seq(Row)) /\ Len(objects) = 0
      BY <1>1, <1>2 DEF UploadsOK
    <2>2. QED
      BY <1>2, <1>4, <1>5, <2>1 DEF UploadsOK
  <1>13. QED
    BY <1>11, <1>12 DEF FilesInv

LEMMA FilesSpawn ==
    ASSUME FilesParametersOK, NEW Row, FilesInv(Row), Spawn
    PROVE  FilesInv(Row)'
  <1>1. WritingOK(Row) /\ UploadsOK(Row)
    BY DEF FilesInv
  <1>2. /\ pc = "upload" /\ Len(task) < Len(files) /\ UNCHANGED writing
        /\ task' = Append(task, NewTask) /\ objects' = Append(objects, <<>>)
    BY DEF Spawn
  <1>3. /\ task \in Seq(TaskType(Row)) /\ objects \in Seq(Seq(Row)) /\ files \in Seq(Seq(Row))
        /\ Len(task) = Len(objects)
    BY <1>1 DEF UploadsOK, WritingOK
  <1>4. NewTask \in TaskType(Row) /\ <<>> \in Seq(Row)
    BY DEF NewTask, TaskType, Stages
  <1>5. /\ task' \in Seq(TaskType(Row)) /\ Len(task') = Len(task) + 1
        /\ task'[Len(task) + 1] = NewTask /\ \A i \in 1..Len(task) : task'[i] = task[i]
    BY <1>2, <1>3, <1>4
  <1>6. /\ objects' \in Seq(Seq(Row)) /\ Len(objects') = Len(objects) + 1
        /\ \A i \in 1..Len(objects) : objects'[i] = objects[i]
    BY <1>2, <1>3, <1>4
  <1>7. WritingOK(Row)'
    BY <1>1, <1>2 DEF writing, WritingOK, RowsKept, Rows
  <1>8. /\ DOMAIN task' = 1..(Len(task) + 1) /\ DOMAIN task = 1..Len(task) /\ Len(task) \in Nat
        /\ Len(task') <= Len(files)
    BY <1>2, <1>3, <1>5
  <1>9. ASSUME NEW i \in DOMAIN task'
        PROVE  TaskOK(task'[i], files[i], objects'[i])
    <2>1. CASE i = Len(task) + 1
      <3>1. files[i] \in Seq(Row)
        BY <1>2, <1>3, <1>8, <2>1
      <3>2. PICK file : file = files[i] /\ file \in Seq(Row) /\ Len(file) \in Nat
        BY <3>1
      <3>3. <<>> \o <<>> = SubSeq(file, 1, 0)
        BY <3>2
      <3>4. TaskOK(NewTask, file, objects'[i])
        BY <3>2, <3>3 DEF TaskOK, NewTask, FilesParametersOK
      <3>5. QED
        BY <1>5, <2>1, <3>2, <3>4
    <2>2. CASE i # Len(task) + 1
      <3>1. i \in DOMAIN task
        BY <1>8, <2>2
      <3>2. task'[i] = task[i] /\ objects'[i] = objects[i]
        BY <1>3, <1>5, <1>6, <1>8, <3>1
      <3>3. QED
        BY <1>1, <3>1, <3>2 DEF UploadsOK
    <2>3. QED
      BY <2>1, <2>2
  <1>10. UploadsOK(Row)'
    <2>1. files' = files /\ pc' = "upload"
      BY <1>2 DEF writing
    <2>2. Len(task') = Len(objects')
      BY <1>3, <1>5, <1>6
    <2>3. QED
      BY <1>5, <1>6, <1>8, <1>9, <2>1, <2>2 DEF UploadsOK
  <1>11. QED
    BY <1>7, <1>10 DEF FilesInv

LEMMA FilesJoin ==
    ASSUME FilesParametersOK, NEW Row, FilesInv(Row), Join
    PROVE  FilesInv(Row)'
  <1>1. WritingOK(Row) /\ UploadsOK(Row)
    BY DEF FilesInv
  <1>2. /\ pc = "upload" /\ Len(task) = Len(files)
        /\ pc' = (IF JoinAll(task) THEN "ok" ELSE "error")
        /\ UNCHANGED <<plan, todo, batch, size, files, local, task, objects>>
    BY DEF Join
  <1>3. WritingOK(Row)'
    BY <1>1, <1>2 DEF WritingOK, RowsKept, Rows, Phases
  <1>4. UploadsOK(Row)'
    BY <1>1, <1>2 DEF UploadsOK, JoinAll
  <1>5. QED
    BY <1>3, <1>4 DEF FilesInv

\* A step of one task.
LEMMA FilesTask ==
    ASSUME FilesParametersOK, NEW Row, FilesInv(Row), NEW i \in DOMAIN task, task[i].at # "ok",
           NEW u \in TaskType(Row), NEW o \in Seq(Row), TaskOK(u, files[i], o),
           StepTask(i, u), objects' = [objects EXCEPT ![i] = o]
    PROVE  FilesInv(Row)'
  <1>1. WritingOK(Row) /\ UploadsOK(Row)
    BY DEF FilesInv
  <1>2. task' = [task EXCEPT ![i] = u] /\ UNCHANGED writing
    BY DEF StepTask
  <1>3. /\ task \in Seq(TaskType(Row)) /\ objects \in Seq(Seq(Row)) /\ Len(task) = Len(objects)
        /\ pc # "ok"
    BY <1>1 DEF UploadsOK
  <1>4. /\ task' \in Seq(TaskType(Row)) /\ Len(task') = Len(task) /\ DOMAIN task' = DOMAIN task
        /\ task'[i] = u /\ \A k \in DOMAIN task : k # i => task'[k] = task[k]
    BY <1>2, <1>3
  <1>5. i \in DOMAIN objects /\ DOMAIN objects = DOMAIN task
    BY <1>3
  <1>6. /\ objects' \in Seq(Seq(Row)) /\ Len(objects') = Len(objects)
        /\ objects'[i] = o /\ \A k \in DOMAIN task : k # i => objects'[k] = objects[k]
    BY <1>3, <1>5
  <1>7. WritingOK(Row)'
    BY <1>1, <1>2 DEF writing, WritingOK, RowsKept, Rows
  <1>8. files' = files /\ pc' = pc
    BY <1>2 DEF writing
  <1>9. \A k \in DOMAIN task' : TaskOK(task'[k], files[k], objects'[k])
    BY <1>1, <1>4, <1>6 DEF UploadsOK
  <1>10. UploadsOK(Row)'
    <2>1. Len(task') = Len(objects') /\ Len(task') <= Len(files)
      BY <1>1, <1>3, <1>4, <1>6 DEF UploadsOK
    <2>2. pc \in {"next", "fill"} => task' = <<>>
      BY <1>1, <1>4 DEF UploadsOK
    <2>3. QED
      BY <1>3, <1>4, <1>6, <1>8, <1>9, <2>1, <2>2 DEF UploadsOK
  <1>11. QED
    BY <1>7, <1>10 DEF FilesInv

\* What a step of task i may use.
LEMMA TaskFacts ==
    ASSUME NEW Row, FilesInv(Row), NEW i \in DOMAIN task
    PROVE  /\ task[i] \in TaskType(Row) /\ files[i] \in Seq(Row) /\ objects[i] \in Seq(Row)
           /\ TaskOK(task[i], files[i], objects[i])
           /\ objects = [objects EXCEPT ![i] = objects[i]]
  <1>1. /\ task \in Seq(TaskType(Row)) /\ objects \in Seq(Seq(Row)) /\ files \in Seq(Seq(Row))
        /\ Len(task) = Len(objects) /\ Len(task) <= Len(files)
    BY DEF FilesInv, WritingOK, UploadsOK
  <1>2. i \in 1..Len(task) /\ i \in 1..Len(objects) /\ i \in 1..Len(files)
    BY <1>1
  <1>3. task[i] \in TaskType(Row) /\ files[i] \in Seq(Row) /\ objects[i] \in Seq(Row)
    BY <1>1, <1>2
  <1>4. objects = [objects EXCEPT ![i] = objects[i]]
    BY <1>1, <1>2
  <1>5. TaskOK(task[i], files[i], objects[i])
    BY DEF FilesInv, UploadsOK
  <1>6. QED
    BY <1>3, <1>4, <1>5

\* A task that only changes its stage.
LEMMA StageOK ==
    ASSUME NEW Row, NEW t \in TaskType(Row), NEW file, NEW object, NEW o,
           TaskOK(t, file, object), NEW at \in Stages,
           \/ at = "error"
           \/ at = "ok" /\ o = file
           \/ at = "read" /\ t.at = "open"
    PROVE  [t EXCEPT !.at = at] \in TaskType(Row) /\ TaskOK([t EXCEPT !.at = at], file, o)
  <1>1. PICK u : u = [t EXCEPT !.at = at]
    OBVIOUS
  <1>2. /\ u \in TaskType(Row) /\ u.at = at /\ u.read = t.read /\ u.buffer = t.buffer
        /\ u.eof = t.eof /\ u.zeros = t.zeros /\ u.parts = t.parts
    BY <1>1 DEF TaskType
  <1>3. TaskOK(u, file, o)
    BY <1>2 DEF TaskOK
  <1>4. QED
    BY <1>1, <1>2, <1>3

LEMMA FilesFastUpload ==
    ASSUME FilesParametersOK, NEW Row, FilesInv(Row), NEW i, FastUpload(i)
    PROVE  FilesInv(Row)'
  <1>1. i \in DOMAIN task /\ task[i].at = "open"
    BY DEF FastUpload
  <1>2. /\ task[i] \in TaskType(Row) /\ files[i] \in Seq(Row) /\ objects[i] \in Seq(Row)
        /\ TaskOK(task[i], files[i], objects[i])
    BY <1>1, TaskFacts
  <1>3. PICK t, file : t = task[i] /\ file = files[i]
    OBVIOUS
  <1>4. CASE /\ objects' = [objects EXCEPT ![i] = files[i]]
             /\ StepTask(i, [task[i] EXCEPT !.at = "ok"])
    <2>1. /\ [t EXCEPT !.at = "ok"] \in TaskType(Row)
          /\ TaskOK([t EXCEPT !.at = "ok"], file, file)
      BY <1>2, <1>3, StageOK DEF Stages
    <2>2. task[i].at # "ok"
      BY <1>1
    <2>3. QED
      BY <1>1, <1>2, <1>3, <1>4, <2>1, <2>2, FilesTask
  <1>5. CASE /\ \E n \in 0..Len(files[i]) :
                  objects' = [objects EXCEPT ![i] = SubSeq(files[i], 1, n)]
             /\ StepTask(i, [task[i] EXCEPT !.at = "error"])
    <2>1. PICK n \in 0..Len(file) : objects' = [objects EXCEPT ![i] = SubSeq(file, 1, n)]
      BY <1>3, <1>5
    <2>2. SubSeq(file, 1, n) \in Seq(Row)
      BY <1>2, <1>3
    <2>3. /\ [t EXCEPT !.at = "error"] \in TaskType(Row)
          /\ TaskOK([t EXCEPT !.at = "error"], file, SubSeq(file, 1, n))
      BY <1>2, <1>3, StageOK DEF Stages
    <2>4. task[i].at # "ok"
      BY <1>1
    <2>5. QED
      BY <1>1, <1>3, <1>5, <2>1, <2>2, <2>3, <2>4, FilesTask
  <1>6. QED
    BY <1>4, <1>5 DEF FastUpload

LEMMA FilesOpenUpload ==
    ASSUME FilesParametersOK, NEW Row, FilesInv(Row), NEW i, OpenUpload(i)
    PROVE  FilesInv(Row)'
  <1>1. i \in DOMAIN task /\ task[i].at = "open"
    BY DEF OpenUpload
  <1>2. PICK at \in {"read", "error"} : StepTask(i, [task[i] EXCEPT !.at = at])
    BY DEF OpenUpload
  <1>3. /\ task[i] \in TaskType(Row) /\ objects[i] \in Seq(Row)
        /\ TaskOK(task[i], files[i], objects[i])
        /\ objects = [objects EXCEPT ![i] = objects[i]]
    BY <1>1, TaskFacts
  <1>4. /\ [task[i] EXCEPT !.at = at] \in TaskType(Row)
        /\ TaskOK([task[i] EXCEPT !.at = at], files[i], objects[i])
    <2>1. at \in Stages
      BY DEF Stages
    <2>2. QED
      BY <1>1, <1>3, <2>1, StageOK
  <1>5. objects' = [objects EXCEPT ![i] = objects[i]]
    BY <1>3 DEF OpenUpload
  <1>6. task[i].at # "ok"
    BY <1>1
  <1>7. QED
    BY <1>1, <1>2, <1>3, <1>4, <1>5, <1>6, FilesTask

LEMMA FilesReadBuf ==
    ASSUME FilesParametersOK, NEW Row, FilesInv(Row), NEW i, ReadBuf(i)
    PROVE  FilesInv(Row)'
  <1>1. i \in DOMAIN task /\ task[i].at = "read"
    BY DEF ReadBuf
  <1>2. /\ task[i] \in TaskType(Row) /\ files[i] \in Seq(Row) /\ objects[i] \in Seq(Row)
        /\ TaskOK(task[i], files[i], objects[i])
        /\ objects = [objects EXCEPT ![i] = objects[i]]
    BY <1>1, TaskFacts
  <1>3. PICK n, u : ReadTurn(task[i], files[i], n, u) /\ StepTask(i, u)
    BY Zenon DEF ReadBuf, ReadTurn
  <1>4. u \in TaskType(Row) /\ TaskOK(u, files[i], objects[i])
    BY <1>1, <1>2, <1>3, TurnOK
  <1>5. objects' = [objects EXCEPT ![i] = objects[i]]
    BY <1>2 DEF ReadBuf
  <1>6. task[i].at # "ok"
    BY <1>1
  <1>7. QED
    BY <1>1, <1>2, <1>3, <1>4, <1>5, <1>6, FilesTask

LEMMA FilesPutPart ==
    ASSUME FilesParametersOK, NEW Row, FilesInv(Row), NEW i, PutPart(i)
    PROVE  FilesInv(Row)'
  <1>1. i \in DOMAIN task /\ task[i].at = "put"
    BY DEF PutPart
  <1>2. /\ task[i] \in TaskType(Row) /\ files[i] \in Seq(Row) /\ objects[i] \in Seq(Row)
        /\ TaskOK(task[i], files[i], objects[i])
        /\ objects = [objects EXCEPT ![i] = objects[i]]
    BY <1>1, TaskFacts
  <1>3. objects' = [objects EXCEPT ![i] = objects[i]]
    BY <1>2 DEF PutPart
  <1>4. task[i].at # "ok"
    BY <1>1
  <1>5. PICK t, file, parts : t = task[i] /\ file = files[i] /\ parts = t.parts \o t.buffer
    OBVIOUS
  <1>6. /\ t.parts \in Seq(Row) /\ t.buffer \in Seq(Row) /\ t.at = "put" /\ t \in TaskType(Row)
        /\ TaskOK(t, file, objects[i])
    BY <1>1, <1>2, <1>5 DEF TaskType
  <1>7. parts \in Seq(Row) /\ parts \o <<>> = parts /\ <<>> \in Seq(Row)
    <2>1. t.parts \in Seq(Row) /\ t.buffer \in Seq(Row)
      BY <1>6
    <2>2. parts \in Seq(Row)
      BY <1>5, <2>1, ConcatFacts
    <2>3. QED
      BY <2>2, ConcatEmptySeq
  <1>8. CASE StepTask(i, [task[i] EXCEPT !.at = "read", !.parts = @ \o task[i].buffer, !.buffer = <<>>])
    <2>1. PICK u : u = [t EXCEPT !.at = "read", !.parts = parts, !.buffer = <<>>]
      OBVIOUS
    <2>2. /\ u \in TaskType(Row) /\ u.at = "read" /\ u.read = t.read /\ u.buffer = <<>>
          /\ u.eof = t.eof /\ u.zeros = t.zeros /\ u.parts = parts
      BY <1>6, <1>7, <2>1 DEF TaskType, Stages
    <2>3. /\ t.eof = 0 /\ t.zeros \in Nat /\ t.zeros <= MaxZeros /\ t.read <= Len(file)
          /\ parts = SubSeq(file, 1, t.read)
      BY <1>5, <1>6 DEF TaskOK, TaskType
    <2>4. TaskOK(u, file, objects[i])
      BY <1>7, <2>2, <2>3 DEF TaskOK
    <2>5. StepTask(i, u)
      BY <1>5, <1>8, <2>1
    <2>6. QED
      BY <1>1, <1>2, <1>3, <1>4, <1>5, <2>2, <2>4, <2>5, FilesTask
  <1>9. CASE StepTask(i, [task[i] EXCEPT !.at = "error", !.parts = <<>>])
    <2>1. PICK u : u = [t EXCEPT !.at = "error", !.parts = <<>>]
      OBVIOUS
    <2>2. /\ u \in TaskType(Row) /\ u.at = "error" /\ u.buffer = t.buffer
          /\ u.eof = t.eof /\ u.zeros = t.zeros
      BY <1>6, <1>7, <2>1 DEF TaskType, Stages
    <2>3. TaskOK(u, file, objects[i])
      BY <1>6, <2>2 DEF TaskOK
    <2>4. StepTask(i, u)
      BY <1>5, <1>9, <2>1
    <2>5. QED
      BY <1>1, <1>2, <1>3, <1>4, <1>5, <2>2, <2>3, <2>4, FilesTask
  <1>10. QED
    BY <1>8, <1>9 DEF PutPart

LEMMA FilesComplete ==
    ASSUME FilesParametersOK, NEW Row, FilesInv(Row), NEW i, Complete(i)
    PROVE  FilesInv(Row)'
  <1>1. i \in DOMAIN task /\ task[i].at = "complete" /\ task[i].at # "ok"
    BY DEF Complete
  <1>2. /\ task[i] \in TaskType(Row) /\ files[i] \in Seq(Row) /\ objects[i] \in Seq(Row)
        /\ TaskOK(task[i], files[i], objects[i])
        /\ objects = [objects EXCEPT ![i] = objects[i]]
    BY <1>1, TaskFacts
  <1>3. CASE /\ objects' = [objects EXCEPT ![i] = task[i].parts]
             /\ StepTask(i, [task[i] EXCEPT !.at = "ok"])
    <2>1. task[i].parts = files[i]
      BY <1>1, <1>2 DEF TaskOK
    <2>2. /\ [task[i] EXCEPT !.at = "ok"] \in TaskType(Row)
          /\ TaskOK([task[i] EXCEPT !.at = "ok"], files[i], files[i])
      BY <1>2, StageOK DEF Stages
    <2>3. QED
      BY <1>1, <1>2, <1>3, <2>1, <2>2, FilesTask
  <1>4. CASE StepTask(i, [task[i] EXCEPT !.at = "error"]) /\ UNCHANGED objects
    <2>1. /\ [task[i] EXCEPT !.at = "error"] \in TaskType(Row)
          /\ TaskOK([task[i] EXCEPT !.at = "error"], files[i], objects[i])
      BY <1>2, StageOK DEF Stages
    <2>2. objects' = [objects EXCEPT ![i] = objects[i]]
      BY <1>2, <1>4
    <2>3. QED
      BY <1>1, <1>2, <1>4, <2>1, <2>2, FilesTask
  <1>5. QED
    BY <1>3, <1>4 DEF Complete

LEMMA FilesStep ==
    ASSUME FilesParametersOK, NEW Row, FilesInv(Row), [FilesNext]_filesVars
    PROVE  FilesInv(Row)'
  <1>1. CASE Write
    BY <1>1, FilesTakeBatch, FilesRollOver, FilesWriteRest, FilesCloseLast, FilesSpawn, FilesJoin
       DEF Write
  <1>2. CASE \E i \in DOMAIN files : Upload(i)
    BY <1>2, FilesFastUpload, FilesOpenUpload, FilesReadBuf, FilesPutPart, FilesComplete
       DEF Upload
  <1>3. CASE UNCHANGED filesVars
    BY <1>3 DEF filesVars, FilesInv, WritingOK, UploadsOK, RowsKept, Rows
  <1>4. QED
    BY <1>1, <1>2, <1>3 DEF FilesNext

\* When every task has returned its Add, the objects are the files.
LEMMA AllRowsUploaded ==
    ASSUME NEW Row, FilesInv(Row)
    PROVE  pc = "ok" => FlattenSeq(objects) = Rows
  <1>1. SUFFICES ASSUME pc = "ok"
                 PROVE  FlattenSeq(objects) = Rows
    OBVIOUS
  <1>2. /\ files \in Seq(Seq(Row)) /\ objects \in Seq(Seq(Row)) /\ batch = <<>> /\ todo = <<>>
        /\ FlattenSeq(files) \o batch \o FlattenSeq(todo) = Rows
    <2>1. WritingOK(Row) /\ UploadsOK(Row) /\ pc \in {"upload", "ok"} /\ pc # "error"
      BY <1>1 DEF FilesInv
    <2>2. files \in Seq(Seq(Row)) /\ objects \in Seq(Seq(Row)) /\ batch = <<>> /\ todo = <<>>
      BY <2>1, <1>1 DEF WritingOK, UploadsOK
    <2>3. RowsKept
      BY <2>1 DEF WritingOK
    <2>4. QED
      BY <2>1, <2>2, <2>3 DEF RowsKept
  <1>3. /\ Len(objects) = Len(files) /\ DOMAIN task = 1..Len(files)
        /\ \A i \in DOMAIN task : objects[i] = files[i]
    <2>1. UploadsOK(Row)
      BY DEF FilesInv
    <2>2. /\ task \in Seq(TaskType(Row)) /\ Len(task) = Len(objects) /\ Len(task) = Len(files)
          /\ \A i \in DOMAIN task : task[i].at = "ok" /\ TaskOK(task[i], files[i], objects[i])
      BY <1>1, <2>1 DEF UploadsOK
    <2>3. \A i \in DOMAIN task : objects[i] = files[i]
      BY <2>2 DEF TaskOK
    <2>4. QED
      BY <2>2, <2>3
  <1>4. objects = files
    BY <1>2, <1>3, SeqEqual
  <1>5. PICK rows : rows = FlattenSeq(files) /\ rows \in Seq(Row)
    BY <1>2, FlattenType
  <1>6. (rows \o <<>>) \o <<>> = rows
    BY <1>5, ConcatEmptySeq
  <1>7. QED
    BY <1>2, <1>4, <1>5, <1>6, FlattenEmpty

\* The re-chunking loop of plan_to_object_store neither loses nor repeats nor
\* reorders a row, whatever the batches of the plan are and however many rows a
\* file may hold: closed files are full, and the counter is the length of the open
\* one.
THEOREM AllRowsWritten ==
    ASSUME FilesParametersOK, NEW Row, Plans \subseteq Seq(Seq(Row))
    PROVE  FilesSpec => []RowsKept
  <1>1. FilesInit => FilesInv(Row)
    BY FilesInitially
  <1>2. FilesInv(Row) /\ [FilesNext]_filesVars => FilesInv(Row)'
    BY FilesStep
  <1>3. FilesInv(Row) => RowsKept
    BY DEF FilesInv, WritingOK
  <1>4. QED
    BY <1>1, <1>2, <1>3, PTL DEF FilesSpec

\* When plan_to_object_store returns its Adds, the objects they name hold every row
\* of the plan, once and in order: for every number and size of batches, every size
\* of file, of part and of read, and however the upload tasks interleave.  Three
\* empty reads in a row are the end of the file because no more than two come
\* before it (FilesParametersOK), and join_all returns no Add of a task that failed.
THEOREM AllRowsAdded ==
    ASSUME FilesParametersOK, NEW Row, Plans \subseteq Seq(Seq(Row))
    PROVE  FilesSpec => []AddsHaveAllRows
  <1>1. FilesInit => FilesInv(Row)
    BY FilesInitially
  <1>2. FilesInv(Row) /\ [FilesNext]_filesVars => FilesInv(Row)'
    BY FilesStep
  <1>3. FilesInv(Row) => RowsKept
    BY DEF FilesInv, WritingOK
  <1>4. FilesInv(Row) => AddsHaveAllRows
    BY <1>3, AllRowsUploaded DEF AddsHaveAllRows
  <1>5. QED
    BY <1>1, <1>2, <1>4, PTL DEF FilesSpec

----------------------------------------------------------------------------
(***************************************************************************)
(* Stores                                                                  *)
(***************************************************************************)

\* The registered stores and the tables they were registered by.
RegistryOK == DOMAIN registry = DOMAIN opened /\ OwnCredentials

\* The stores that are kept are those of their locations, and each session's is
\* its own.
StoresInv ==
    /\ ses = [s \in Sessions |-> ses[s]]
    /\ \A k \in DOMAIN stores : stores[k] = build_object_store_from_opts(k.url, k.opts)
    /\ StoreServesLocation
    /\ RegistryOK

\* What a configuration made from options is signed with.
LEMMA S3ConfigFacts ==
    ASSUME NEW b, NEW o
    PROVE  /\ S3Config(b, o).scheme = "s3"
           /\ S3Config(b, o).key = IF "key" \in DOMAIN o THEN o["key"] ELSE None
  BY DEF S3Config, Get

LEMMA BuildS3Signer ==
    ASSUME NEW c, BuildS3(c) # Failed
    PROVE  \/ BuildS3(c).signer = <<"unsigned">>
           \/ c.key # None /\ BuildS3(c).signer = <<c.key, c.secret, c.token>>
  BY DEF BuildS3, S3Store

LEMMA InternalSigner ==
    ASSUME StoresParametersOK, NEW c \in Configs
    PROVE  \/ build_object_store(c).signer = <<"unsigned">>
           \/ \E y, z : c.scheme = "s3" /\ build_object_store(c).signer = <<c.key, y, z>>
           \/ c.scheme = "gs" /\ build_object_store(c).signer = <<c.credentials>>
  <1>1. build_object_store(c) # Failed /\ c.scheme \in {"s3", "gs"}
    BY DEF StoresParametersOK
  <1>2. CASE c.scheme = "s3"
    BY <1>1, <1>2, BuildS3Signer DEF build_object_store
  <1>3. CASE c.scheme = "gs"
    BY <1>3 DEF build_object_store, GCSStore
  <1>4. QED
    BY <1>1, <1>2, <1>3

LEMMA ExternalSigner ==
    ASSUME StoresParametersOK, KeysAreSecret, NEW l \in Locations, NEW i, BringsCredentials(l),
           l.url.scheme \in {"s3", "gs"},
           NEW st, st = build_object_store(ExternalConfig(l, i)), st # Failed
    PROVE  st.signer \notin ServerSigners
  <1>0. DOMAIN l.opts # {}
    BY DEF BringsCredentials
  <1>1. CASE l.url.scheme = "s3"
    <2>1. PICK g : g = S3Config(l.url.bucket, l.opts)
      OBVIOUS
    <2>2. ExternalConfig(l, i) = g /\ g.scheme = "s3"
      BY <1>0, <1>1, <2>1, S3ConfigFacts DEF ExternalConfig
    <2>3. st = BuildS3(g)
      BY <2>2 DEF build_object_store
    <2>4. g.key = IF "key" \in DOMAIN l.opts THEN l.opts["key"] ELSE None
      BY <2>1, S3ConfigFacts
    <2>5. CASE st.signer = <<"unsigned">>
      BY <2>5 DEF ServerSigners, None
    <2>6. CASE g.key # None /\ st.signer = <<g.key, g.secret, g.token>>
      <3>1. \A c \in Configs : g.key # InternalKey(c)
        BY <2>4, <2>6 DEF KeysAreSecret
      <3>2. \A c \in Configs : st.signer # build_object_store(c).signer
        BY <2>6, <3>1, InternalSigner DEF InternalKey
      <3>3. QED
        BY <2>6, <3>2 DEF ServerSigners
    <2>7. QED
      BY <2>3, <2>5, <2>6, BuildS3Signer
  <1>2. CASE l.url.scheme = "gs"
    <2>1. "credentials" \in DOMAIN l.opts
      BY <1>2 DEF BringsCredentials
    <2>2. PICK cr : cr = l.opts["credentials"]
      OBVIOUS
    <2>3. ExternalConfig(l, i) = GCSConfig(l.url.bucket, l.opts)
      BY <1>0, <1>2 DEF ExternalConfig
    <2>4. st.signer = <<cr>>
      BY <2>1, <2>2, <2>3 DEF build_object_store, GCSConfig, GCSStore, Get
    <2>5. cr # None /\ \A c \in Configs : cr # InternalKey(c)
      BY <2>1, <2>2 DEF KeysAreSecret
    <2>6. ASSUME NEW c \in Configs, st.signer = build_object_store(c).signer
          PROVE  st.signer = <<"unsigned">>
      BY <2>4, <2>5, <2>6, InternalSigner DEF InternalKey
    <2>7. QED
      BY <2>4, <2>5, <2>6 DEF ServerSigners
  <1>3. QED
    BY <1>1, <1>2

\* A step of one session that leaves the stores alone.
LEMMA OneSession ==
    ASSUME StoresInv, NEW s \in Sessions, NEW at, NEW l, NEW st,
           ses' = [ses EXCEPT ![s] = Session(at, l, st)],
           at = "idle" /\ st \notin {NoStore, Failed} => st = build_object_store_from_opts(l.url, l.opts)
    PROVE  /\ ses' = [t \in Sessions |-> ses'[t]]
           /\ StoreServesLocation'
  <1>1. ses = [t \in Sessions |-> ses[t]]
    BY DEF StoresInv
  <1>2. ses' = [t \in Sessions |-> ses'[t]] /\ \A t \in Sessions : t # s => ses'[t] = ses[t]
    BY <1>1
  <1>3. ses'[s].pc = at /\ ses'[s].loc = l /\ ses'[s].store = st
    BY <1>1 DEF Session
  <1>4. StoreServesLocation'
    <2>1. SUFFICES ASSUME NEW t \in Sessions, ses'[t].pc = "idle", ses'[t].store \notin {NoStore, Failed}
                   PROVE  ses'[t].store = build_object_store_from_opts(ses'[t].loc.url, ses'[t].loc.opts)
      BY DEF StoreServesLocation, SessionAt
    <2>2. CASE t = s
      BY <1>3, <2>1, <2>2
    <2>3. CASE t # s
      BY <1>2, <2>1, <2>3 DEF StoresInv, StoreServesLocation, SessionAt
    <2>4. QED
      BY <2>2, <2>3
  <1>5. QED
    BY <1>2, <1>4

\* A step that leaves the registered stores alone.
LEMMA SameRegistry ==
    ASSUME StoresInv, registry' = registry, opened' = opened
    PROVE  RegistryOK'
  BY DEF StoresInv, RegistryOK, OwnCredentials

LEMMA StoresStep ==
    ASSUME StoresParametersOK, KeysAreSecret, StoresInv, [StoresNext]_storesVars
    PROVE  StoresInv'
  <1>1. ASSUME NEW s \in Sessions, NEW l \in Locations, AskStore(s, l)
        PROVE  StoresInv'
    <2>1. ses' = [ses EXCEPT ![s] = Session("lookup", l, NoStore)] /\ stores' = stores
          /\ registry' = registry /\ opened' = opened
      BY <1>1 DEF AskStore
    <2>2. QED
      BY <2>1, OneSession, SameRegistry DEF StoresInv
  <1>2. ASSUME NEW s \in Sessions, LookupStore(s)
        PROVE  StoresInv'
    <2>0. RegistryOK'
      BY <1>2, SameRegistry DEF LookupStore
    <2>1. PICK l : l = ses[s].loc
      OBVIOUS
    <2>2. CASE l \in DOMAIN stores
      <3>1. ses' = [ses EXCEPT ![s] = Session("idle", l, stores[l])] /\ stores' = stores
        BY <1>2, <2>1, <2>2 DEF LookupStore, StoreCacheKey, GiveStore
      <3>2. stores[l] = build_object_store_from_opts(l.url, l.opts)
        BY <2>2 DEF StoresInv
      <3>3. QED
        BY <2>0, <3>1, <3>2, OneSession DEF StoresInv
    <2>3. CASE l \notin DOMAIN stores
      <3>1. ses' = [ses EXCEPT ![s] = Session("build", l, NoStore)] /\ stores' = stores
        BY <1>2, <2>1, <2>3 DEF LookupStore, StoreCacheKey
      <3>2. QED
        BY <2>0, <3>1, OneSession DEF StoresInv
    <2>4. QED
      BY <2>2, <2>3
  <1>3. ASSUME NEW s \in Sessions, BuildStore(s)
        PROVE  StoresInv'
    <2>0. RegistryOK'
      BY <1>3, SameRegistry DEF BuildStore
    <2>1. PICK l, st : l = ses[s].loc /\ st = build_object_store_from_opts(l.url, l.opts)
      OBVIOUS
    <2>2. \/ GiveStore(s, Failed) /\ stores' = stores
          \/ GiveStore(s, st) /\ stores' = Over([k \in {l} |-> st], stores)
      BY <1>3, <2>1 DEF BuildStore, StoreCacheKey
    <2>3. CASE GiveStore(s, Failed) /\ stores' = stores
      <3>1. ses' = [ses EXCEPT ![s] = Session("idle", l, Failed)]
        BY <2>1, <2>3 DEF GiveStore
      <3>2. QED
        BY <2>0, <2>3, <3>1, OneSession DEF StoresInv
    <2>4. CASE GiveStore(s, st) /\ stores' = Over([k \in {l} |-> st], stores)
      <3>1. ses' = [ses EXCEPT ![s] = Session("idle", l, st)]
        BY <2>1, <2>4 DEF GiveStore
      <3>0. /\ DOMAIN stores' = {l} \cup DOMAIN stores
            /\ \A k \in {l} \cup DOMAIN stores : stores'[k] = IF k = l THEN st ELSE stores[k]
        BY ONLY <2>4 DEF Over
      <3>2. \A k \in DOMAIN stores' : k = l \/ (k \in DOMAIN stores /\ stores'[k] = stores[k])
        BY <3>0
      <3>3. stores'[l] = st
        BY <3>0
      <3>4. \A k \in DOMAIN stores' : stores'[k] = build_object_store_from_opts(k.url, k.opts)
        BY <2>1, <3>2, <3>3 DEF StoresInv
      <3>5. QED
        BY <2>0, <2>1, <3>1, <3>4, OneSession DEF StoresInv
    <2>5. QED
      BY <2>2, <2>3, <2>4
  <1>4. ASSUME NEW s \in Sessions, NEW l \in Locations, NEW i \in Configs, PrepareExternalTable(s, l, i)
        PROVE  StoresInv'
    <2>1. PICK st : st = IF DOMAIN l.opts = {} /\ i.scheme # l.url.scheme THEN Failed
                         ELSE build_object_store(ExternalConfig(l, i))
      OBVIOUS
    <2>2. ses' = ses /\ stores' = stores /\ l.url.scheme \in {"s3", "gs"}
      BY <1>4 DEF PrepareExternalTable
    <2>3. \/ registry' = registry /\ opened' = opened
          \/ /\ st # Failed
             /\ registry' = Over([u \in {l.url} |-> st], registry)
             /\ opened' = Over([u \in {l.url} |-> l], opened)
      BY <1>4, <2>1 DEF PrepareExternalTable
    <2>4. RegistryOK'
      <3>1. CASE registry' = registry /\ opened' = opened
        BY <3>1, SameRegistry
      <3>2. CASE /\ st # Failed
                 /\ registry' = Over([u \in {l.url} |-> st], registry)
                 /\ opened' = Over([u \in {l.url} |-> l], opened)
        <4>1. /\ DOMAIN registry' = {l.url} \cup DOMAIN registry
              /\ \A u \in {l.url} \cup DOMAIN registry :
                   registry'[u] = IF u = l.url THEN st ELSE registry[u]
          BY ONLY <3>2 DEF Over
        <4>2. /\ DOMAIN opened' = {l.url} \cup DOMAIN opened
              /\ \A u \in {l.url} \cup DOMAIN opened :
                   opened'[u] = IF u = l.url THEN l ELSE opened[u]
          BY ONLY <3>2 DEF Over
        <4>3. BringsCredentials(l) => st.signer \notin ServerSigners
          <5>1. BringsCredentials(l) => DOMAIN l.opts # {}
            BY DEF BringsCredentials
          <5>2. QED
            BY <2>1, <2>2, <3>2, <5>1, ExternalSigner
        <4>4. DOMAIN registry = DOMAIN opened
              /\ \A u \in DOMAIN registry : registry[u].signer \in ServerSigners => ~BringsCredentials(opened[u])
          BY DEF StoresInv, RegistryOK, OwnCredentials
        <4>5. ASSUME NEW u \in DOMAIN registry', registry'[u].signer \in ServerSigners
              PROVE  ~BringsCredentials(opened'[u])
          <5>1. CASE u = l.url
            BY <4>1, <4>2, <4>3, <4>5, <5>1
          <5>2. CASE u # l.url
            <6>1. u \in DOMAIN registry /\ registry'[u] = registry[u] /\ opened'[u] = opened[u]
              BY <4>1, <4>2, <4>4, <4>5, <5>2
            <6>2. QED
              BY <4>4, <4>5, <6>1
          <5>3. QED
            BY <5>1, <5>2
        <4>6. DOMAIN registry' = DOMAIN opened'
          BY <4>1, <4>2, <4>4
        <4>7. OwnCredentials'
          BY <4>5 DEF OwnCredentials
        <4>8. QED
          BY <4>6, <4>7 DEF RegistryOK
      <3>3. QED
        BY <2>3, <3>1, <3>2
    <2>5. QED
      BY <2>2, <2>4 DEF StoresInv, StoreServesLocation, SessionAt
  <1>5. CASE UNCHANGED storesVars
    <2>1. RegistryOK'
      BY <1>5, SameRegistry DEF storesVars
    <2>2. QED
      BY <1>5, <2>1 DEF storesVars, StoresInv, StoreServesLocation, SessionAt
  <1>6. QED
    BY <1>1, <1>2, <1>3, <1>4, <1>5 DEF StoresNext

\* A session is given a store that was built for its own location, whichever
\* sessions build and keep stores at the same time, and the external tables of a
\* bucket are read with the server's credentials, its ambient identity included,
\* only when the table created last in the bucket brought none of its own
\* (get_log_store_for_table, prepare_create_external_table): for any number of
\* sessions, locations and configurations, if no option is a key of the server.
THEOREM StoresAreOwn ==
    ASSUME StoresParametersOK, KeysAreSecret
    PROVE  StoresSpec => []OwnStore
  <1>1. StoresInit => StoresInv
    BY DEF StoresInit, StoresInv, RegistryOK, StoreServesLocation, OwnCredentials, SessionAt, Quiet, Session
  <1>2. StoresInv /\ [StoresNext]_storesVars => StoresInv'
    BY StoresStep
  <1>3. StoresInv => OwnStore
    BY DEF StoresInv, RegistryOK, OwnStore
  <1>4. QED
    BY <1>1, <1>2, <1>3, PTL DEF StoresSpec

----------------------------------------------------------------------------
(***************************************************************************)
(* MemoryPool                                                              *)
(***************************************************************************)

Call == [op : {"none", "alloc", "free"}, at : {"idle", "changed", "read", "set"}, size : Nat,
         ok : BOOLEAN, saw : Nat]

\* What a call has changed in the pool and has not counted yet.
In(m) == IF m.op = "alloc" /\ m.ok THEN m.size ELSE 0
Out(m) == IF m.op = "free" THEN m.size ELSE 0
Ins == [c \in Consumer |-> In(call[c])]
Outs == [c \in Consumer |-> Out(call[c])]

\* The pool has what reservations hold, and the counters account for it with the
\* calls under way.
PoolInv ==
    /\ reserved \in Nat /\ allocated \in Nat /\ freed \in Nat
    /\ held \in [Consumer -> Nat] /\ call \in [Consumer -> Call]
    /\ \A c \in Consumer : call[c].at = "idle" => call[c].op = "none"
    /\ reserved = SumFunction(held)
    /\ allocated + SumFunction(Ins) = freed + SumFunction(Outs) + reserved

LEMMA CallFacts ==
    ASSUME NEW m \in Call
    PROVE  In(m) \in Nat /\ Out(m) \in Nat /\ (m.op = "none" => In(m) = 0 /\ Out(m) = 0)
  BY DEF Call, In, Out

LEMMA InsOutsType ==
    ASSUME call \in [Consumer -> Call]
    PROVE  Ins \in [Consumer -> Nat] /\ Outs \in [Consumer -> Nat]
  BY CallFacts DEF Ins, Outs

\* One element of a sum is replaced.
LEMMA SumReplace ==
    ASSUME IsFiniteSet(Consumer), NEW f \in [Consumer -> Nat], NEW h \in [Consumer -> Nat],
           NEW c \in Consumer, \A x \in Consumer \ {c} : h[x] = f[x]
    PROVE  /\ SumFunction(f) \in Nat /\ SumFunction(h) \in Nat
           /\ SumFunction(h) + f[c] = SumFunction(f) + h[c]
  <1>1. SumFunction(f) \in Nat /\ SumFunction(h) \in Nat
    BY SumFunctionFacts
  <1>2. SumFunction(h) + f[c] = SumFunction(f) + h[c]
    BY SumFunctionFacts
  <1>3. QED
    BY <1>1, <1>2

\* The arithmetic of such a step.
LEMMA Balance ==
    ASSUME NEW a \in Nat, NEW a2 \in Nat, NEW f \in Nat, NEW f2 \in Nat, NEW r \in Nat, NEW r2 \in Nat,
           NEW i \in Nat, NEW i2 \in Nat, NEW o \in Nat, NEW o2 \in Nat,
           NEW m1 \in Nat, NEW m2 \in Nat, NEW n1 \in Nat, NEW n2 \in Nat,
           a + i = f + o + r, i2 + m1 = i + m2, o2 + n1 = o + n2,
           a2 + m2 + f + n1 + r = a + m1 + f2 + n2 + r2
    PROVE  a2 + i2 = f2 + o2 + r2
  OBVIOUS

\* A step of one consumer, which replaces its call and its reservation.
LEMMA OneCall ==
    ASSUME PoolParametersOK, PoolInv, NEW c \in Consumer, NEW m \in Call, NEW h \in Nat,
           call' = [call EXCEPT ![c] = m], held' = [held EXCEPT ![c] = h],
           m.at = "idle" => m.op = "none",
           reserved' \in Nat, allocated' \in Nat, freed' \in Nat,
           reserved' + held[c] = reserved + h,
           allocated' + In(m) + freed + Out(call[c]) + reserved
             = allocated + In(call[c]) + freed' + Out(m) + reserved'
    PROVE  PoolInv'
  <1>1. /\ IsFiniteSet(Consumer) /\ held \in [Consumer -> Nat] /\ call \in [Consumer -> Call]
        /\ reserved \in Nat /\ allocated \in Nat /\ freed \in Nat
    BY DEF PoolInv, PoolParametersOK
  <1>2. held' \in [Consumer -> Nat] /\ call' \in [Consumer -> Call] /\ call'[c] = m /\ held'[c] = h
        /\ \A x \in Consumer \ {c} : call'[x] = call[x] /\ held'[x] = held[x]
    BY <1>1
  <1>3. Ins \in [Consumer -> Nat] /\ Outs \in [Consumer -> Nat]
    BY <1>1, InsOutsType
  <1>4. Ins' \in [Consumer -> Nat] /\ Outs' \in [Consumer -> Nat]
    BY <1>2, CallFacts DEF Ins, Outs
  <1>5. /\ \A x \in Consumer \ {c} : Ins'[x] = Ins[x] /\ Outs'[x] = Outs[x]
        /\ Ins[c] = In(call[c]) /\ Outs[c] = Out(call[c])
        /\ Ins'[c] = In(m) /\ Outs'[c] = Out(m)
    BY <1>2 DEF Ins, Outs
  <1>6. PICK sh, sh2 : sh = SumFunction(held) /\ sh2 = SumFunction(held')
    OBVIOUS
  <1>7. sh \in Nat /\ sh2 \in Nat /\ sh2 + held[c] = sh + h
    BY <1>1, <1>2, <1>6, SumReplace
  <1>8. PICK i, i2 : i = SumFunction(Ins) /\ i2 = SumFunction(Ins')
    OBVIOUS
  <1>9. i \in Nat /\ i2 \in Nat /\ i2 + In(call[c]) = i + In(m)
    BY <1>1, <1>3, <1>4, <1>5, <1>8, SumReplace
  <1>10. PICK o, o2 : o = SumFunction(Outs) /\ o2 = SumFunction(Outs')
    OBVIOUS
  <1>11. o \in Nat /\ o2 \in Nat /\ o2 + Out(call[c]) = o + Out(m)
    BY <1>1, <1>3, <1>4, <1>5, <1>10, SumReplace
  <1>12. reserved = sh /\ allocated + i = freed + o + reserved
    BY <1>6, <1>8, <1>10 DEF PoolInv
  <1>13. PICK m1, m2, n1, n2, h1 : /\ m1 = In(call[c]) /\ m2 = In(m) /\ n1 = Out(call[c]) /\ n2 = Out(m)
                                   /\ h1 = held[c]
    OBVIOUS
  <1>14. m1 \in Nat /\ m2 \in Nat /\ n1 \in Nat /\ n2 \in Nat /\ h1 \in Nat
    BY <1>1, <1>13, CallFacts
  <1>15. reserved' = sh2
    BY <1>7, <1>12, <1>13, <1>14
  <1>16. allocated' + i2 = freed' + o2 + reserved'
    BY <1>1, <1>9, <1>11, <1>12, <1>13, <1>14, Balance
  <1>17. \A x \in Consumer : call'[x].at = "idle" => call'[x].op = "none"
    BY <1>2 DEF PoolInv
  <1>18. QED
    BY <1>2, <1>6, <1>8, <1>10, <1>15, <1>16, <1>17 DEF PoolInv

LEMMA NoCallFacts ==
    ASSUME NEW c \in Consumer, PoolInv
    PROVE  /\ NoCall \in Call /\ NoCall.at = "idle" /\ NoCall.op = "none" /\ In(NoCall) = 0 /\ Out(NoCall) = 0
           /\ call[c] \in Call /\ In(call[c]) \in Nat /\ Out(call[c]) \in Nat
           /\ call[c].at = "idle" => In(call[c]) = 0 /\ Out(call[c]) = 0
  <1>1. NoCall \in Call /\ NoCall.at = "idle" /\ NoCall.op = "none"
    BY DEF NoCall, Call
  <1>2. call[c] \in Call
    BY DEF PoolInv
  <1>3. call[c].at = "idle" => call[c].op = "none"
    BY DEF PoolInv
  <1>4. QED
    BY <1>1, <1>2, <1>3, CallFacts

LEMMA PoolStep ==
    ASSUME PoolParametersOK, PoolInv, [PoolNext]_poolVars
    PROVE  PoolInv'
  <1>0. reserved \in Nat /\ allocated \in Nat /\ freed \in Nat /\ held \in [Consumer -> Nat] /\ call \in [Consumer -> Call]
    BY DEF PoolInv
  <1>1. ASSUME NEW c \in Consumer, NEW n \in Sizes, Grow(c, n)
        PROVE  PoolInv'
    <2>1. PICK m : m = [op |-> "alloc", at |-> "changed", size |-> n, ok |-> TRUE, saw |-> 0]
      OBVIOUS
    <2>2. n \in Nat
      BY DEF PoolParametersOK
    <2>3. m \in Call /\ m.at # "idle" /\ In(m) = n /\ Out(m) = 0
      BY <2>1, <2>2 DEF Call, In, Out
    <2>4. /\ call[c].at = "idle" /\ reserved' = reserved + n /\ held' = [held EXCEPT ![c] = @ + n]
          /\ call' = [call EXCEPT ![c] = m] /\ allocated' = allocated /\ freed' = freed
      BY <1>1, <2>1 DEF Grow, Changed, counters
    <2>5. PICK h \in Nat : h = held[c] + n
      BY <1>0, <2>2
    <2>60. PICK g \in Nat : g = held[c]
      BY <1>0
    <2>6. held' = [held EXCEPT ![c] = h] /\ reserved' + held[c] = reserved + h
      <3>1. held' = [held EXCEPT ![c] = h]
        BY <2>4, <2>5
      <3>2. reserved' + g = reserved + h
        BY <1>0, <2>2, <2>4, <2>5, <2>60
      <3>3. QED
        BY <2>60, <3>1, <3>2
    <2>7. In(call[c]) = 0 /\ Out(call[c]) = 0
      BY <2>4, NoCallFacts
    <2>8. reserved' \in Nat
      BY <1>0, <2>2, <2>4
    <2>9. allocated' + In(m) + freed + Out(call[c]) + reserved
             = allocated + In(call[c]) + freed' + Out(m) + reserved'
      BY <1>0, <2>2, <2>3, <2>4, <2>7
    <2>10. QED
      BY <1>0, <2>3, <2>4, <2>6, <2>8, <2>9, OneCall
  <1>2. ASSUME NEW c \in Consumer, NEW n \in Sizes, TryGrow(c, n)
        PROVE  PoolInv'
    <2>1. PICK m : m = [op |-> "alloc", at |-> "changed", size |-> n, ok |-> Fits(n), saw |-> 0]
      OBVIOUS
    <2>2. n \in Nat
      BY DEF PoolParametersOK
    <2>3. m \in Call /\ m.at # "idle" /\ In(m) = (IF Fits(n) THEN n ELSE 0) /\ Out(m) = 0
      BY <2>1, <2>2 DEF Call, In, Out, Fits
    <2>4. /\ call[c].at = "idle" /\ reserved' = (IF Fits(n) THEN reserved + n ELSE reserved)
          /\ held' = (IF Fits(n) THEN [held EXCEPT ![c] = @ + n] ELSE held)
          /\ call' = [call EXCEPT ![c] = m] /\ allocated' = allocated /\ freed' = freed
      BY <1>2, <2>1 DEF TryGrow, Changed, counters
    <2>5. PICK k \in Nat : k = (IF Fits(n) THEN n ELSE 0)
      BY <2>2
    <2>6. PICK h \in Nat : h = held[c] + k
      BY <1>0, <2>5
    <2>7. held' = [held EXCEPT ![c] = h] /\ reserved' = reserved + k
      <3>1. CASE Fits(n)
        <4>1. k = n
          BY <2>5, <3>1
        <4>2. h = held[c] + n
          BY <2>6, <4>1
        <4>3. held' = [held EXCEPT ![c] = held[c] + n] /\ reserved' = reserved + n
          BY <2>4, <3>1
        <4>4. QED
          BY <4>1, <4>2, <4>3
      <3>2. CASE ~Fits(n)
        <4>1. k = 0
          BY <2>5, <3>2
        <4>2. held' = held /\ reserved' = reserved
          BY <2>4, <3>2
        <4>3. PICK g \in Nat : g = held[c]
          BY <1>0
        <4>4. h = g
          BY <2>6, <4>1, <4>3
        <4>5. [held EXCEPT ![c] = h] = held
          BY <1>0, <4>3, <4>4
        <4>6. QED
          BY <1>0, <4>1, <4>2, <4>5
      <3>3. QED
        BY <3>1, <3>2
    <2>8. reserved' + held[c] = reserved + h /\ reserved' \in Nat
      BY <1>0, <2>5, <2>6, <2>7
    <2>9. In(call[c]) = 0 /\ Out(call[c]) = 0
      BY <2>4, NoCallFacts
    <2>10. allocated' + In(m) + freed + Out(call[c]) + reserved
             = allocated + In(call[c]) + freed' + Out(m) + reserved'
      BY <1>0, <2>3, <2>4, <2>5, <2>7, <2>9
    <2>11. QED
      BY <1>0, <2>3, <2>4, <2>7, <2>8, <2>10, OneCall
  <1>3. ASSUME NEW c \in Consumer, NEW n \in Sizes, Shrink(c, n)
        PROVE  PoolInv'
    <2>1. PICK m : m = [op |-> "free", at |-> "changed", size |-> n, ok |-> TRUE, saw |-> 0]
      OBVIOUS
    <2>2. n \in Nat
      BY DEF PoolParametersOK
    <2>3. m \in Call /\ m.at # "idle" /\ In(m) = 0 /\ Out(m) = n
      BY <2>1, <2>2 DEF Call, In, Out
    <2>4. /\ call[c].at = "idle" /\ reserved' = reserved - n /\ held' = [held EXCEPT ![c] = @ - n]
          /\ call' = [call EXCEPT ![c] = m] /\ allocated' = allocated /\ freed' = freed /\ n <= held[c]
      BY <1>3, <2>1 DEF Shrink, Changed, counters
    <2>5. PICK h \in Nat : h = held[c] - n
      BY <1>0, <2>2, <2>4
    <2>60. PICK g \in Nat : g = held[c]
      BY <1>0
    <2>6. held' = [held EXCEPT ![c] = h] /\ reserved' + held[c] = reserved + h
      <3>1. held' = [held EXCEPT ![c] = h]
        BY <2>4, <2>5
      <3>2. reserved' + g = reserved + h
        BY <1>0, <2>2, <2>4, <2>5, <2>60
      <3>3. QED
        BY <2>60, <3>1, <3>2
    <2>7. In(call[c]) = 0 /\ Out(call[c]) = 0
      BY <2>4, NoCallFacts
    <2>8. reserved' \in Nat
      <3>1. PICK z : z = [held EXCEPT ![c] = 0]
        OBVIOUS
      <3>2. z \in [Consumer -> Nat] /\ z[c] = 0 /\ \A x \in Consumer \ {c} : z[x] = held[x]
        BY <1>0, <3>1
      <3>3. SumFunction(z) \in Nat /\ SumFunction(z) + held[c] = reserved + 0
        BY <1>0, <3>2, SumReplace DEF PoolInv, PoolParametersOK
      <3>4. QED
        BY <1>0, <2>2, <2>4, <3>3
    <2>9. allocated' + In(m) + freed + Out(call[c]) + reserved
             = allocated + In(call[c]) + freed' + Out(m) + reserved'
      BY <1>0, <2>2, <2>3, <2>4, <2>7
    <2>10. QED
      BY <1>0, <2>3, <2>4, <2>6, <2>8, <2>9, OneCall
  <1>4. ASSUME NEW c \in Consumer, ReadReserved(c) \/ SetGauge(c)
        PROVE  PoolInv'
    <2>1. PICK m : m = call'[c]
      OBVIOUS
    <2>2. /\ m \in Call /\ m.at # "idle" /\ m.op = call[c].op /\ m.size = call[c].size /\ m.ok = call[c].ok
          /\ call' = [call EXCEPT ![c] = m]
      <3>1. CASE ReadReserved(c)
        <4>1. call' = [call EXCEPT ![c].at = "read", ![c].saw = reserved]
          BY <3>1 DEF ReadReserved
        <4>2. PICK k \in Call : k = call[c]
          BY <1>0
        <4>3. m = [k EXCEPT !.at = "read", !.saw = reserved] /\ call' = [call EXCEPT ![c] = m]
          BY <1>0, <2>1, <4>1, <4>2
        <4>4. QED
          BY <1>0, <4>2, <4>3 DEF Call
      <3>2. CASE SetGauge(c)
        <4>1. call' = [call EXCEPT ![c].at = "set"]
          BY <3>2 DEF SetGauge
        <4>2. PICK k \in Call : k = call[c]
          BY <1>0
        <4>3. m = [k EXCEPT !.at = "set"] /\ call' = [call EXCEPT ![c] = m]
          BY <1>0, <2>1, <4>1, <4>2
        <4>4. QED
          BY <1>0, <4>2, <4>3 DEF Call
      <3>3. QED
        BY <1>4, <3>1, <3>2
    <2>3. reserved' = reserved /\ allocated' = allocated /\ freed' = freed /\ held' = held
      BY <1>4 DEF ReadReserved, SetGauge, counters
    <2>4. In(m) = In(call[c]) /\ Out(m) = Out(call[c])
      BY <2>2 DEF In, Out
    <2>5. PICK h \in Nat : h = held[c]
      BY <1>0
    <2>6. held' = [held EXCEPT ![c] = h] /\ reserved' + held[c] = reserved + h
      BY <1>0, <2>3, <2>5
    <2>7. In(call[c]) \in Nat /\ Out(call[c]) \in Nat
      BY NoCallFacts
    <2>8. allocated' + In(m) + freed + Out(call[c]) + reserved
             = allocated + In(call[c]) + freed' + Out(m) + reserved'
      BY <1>0, <2>3, <2>4, <2>7
    <2>9. QED
      BY <1>0, <2>2, <2>3, <2>6, <2>8, OneCall
  <1>5. ASSUME NEW c \in Consumer, Count(c)
        PROVE  PoolInv'
    <2>1. /\ call' = [call EXCEPT ![c] = NoCall] /\ reserved' = reserved /\ held' = held
      BY <1>5 DEF Count
    <2>2. NoCall \in Call /\ NoCall.op = "none" /\ In(NoCall) = 0 /\ Out(NoCall) = 0
          /\ In(call[c]) \in Nat /\ Out(call[c]) \in Nat
      BY NoCallFacts
    <2>3. allocated' = allocated + In(call[c]) /\ freed' = freed + Out(call[c])
      <3>1. CASE call[c].op = "alloc" /\ RegisterAllocation(call[c])
        BY <1>0, <3>1 DEF RegisterAllocation, In, Out
      <3>2. CASE call[c].op = "free" /\ RegisterDeallocation(call[c])
        BY <1>0, <3>2 DEF RegisterDeallocation, In, Out
      <3>3. QED
        BY <1>5, <3>1, <3>2 DEF Count
    <2>4. PICK h \in Nat : h = held[c]
      BY <1>0
    <2>5. held' = [held EXCEPT ![c] = h] /\ reserved' + held[c] = reserved + h
      BY <1>0, <2>1, <2>4
    <2>6. allocated' \in Nat /\ freed' \in Nat
      BY <1>0, <2>2, <2>3
    <2>7. allocated' + In(NoCall) + freed + Out(call[c]) + reserved
             = allocated + In(call[c]) + freed' + Out(NoCall) + reserved'
      BY <1>0, <2>1, <2>2, <2>3
    <2>8. QED
      BY <1>0, <2>1, <2>2, <2>5, <2>6, <2>7, OneCall
  <1>6. CASE UNCHANGED poolVars
    BY <1>6 DEF poolVars, PoolInv, Ins, Outs
  <1>7. QED
    BY <1>1, <1>2, <1>3, <1>4, <1>5, <1>6 DEF PoolNext

LEMMA PoolInitially ==
    ASSUME PoolParametersOK, PoolInit
    PROVE  PoolInv
  <1>1. /\ reserved = 0 /\ allocated = 0 /\ freed = 0 /\ held = [c \in Consumer |-> 0]
        /\ call = [c \in Consumer |-> NoCall]
    BY DEF PoolInit
  <1>2. NoCall \in Call /\ NoCall.op = "none"
    BY DEF NoCall, Call
  <1>3. held \in [Consumer -> Nat] /\ call \in [Consumer -> Call] /\ \A c \in Consumer : call[c].op = "none"
    BY <1>1, <1>2
  <1>4. Ins \in [Consumer -> Nat] /\ Outs \in [Consumer -> Nat]
    BY <1>3, InsOutsType
  <1>5. \A c \in Consumer : held[c] = 0 /\ Ins[c] = 0 /\ Outs[c] = 0
    BY <1>1, <1>3, CallFacts DEF Ins, Outs
  <1>6. SumFunction(held) = 0 /\ SumFunction(Ins) = 0 /\ SumFunction(Outs) = 0
    <2>1. IsFiniteSet(Consumer)
      BY DEF PoolParametersOK
    <2>2. QED
      BY <1>3, <1>4, <1>5, <2>1, SumFunctionFacts
  <1>7. QED
    BY <1>1, <1>3, <1>6 DEF PoolInv

\* Between calls the counters account for the pool and the pool for the
\* reservations, for any number of consumers and any limit, although the steps of
\* concurrent calls interleave (register_allocation, register_deallocation).
THEOREM CountersAlwaysBalance ==
    ASSUME PoolParametersOK
    PROVE  PoolSpec => []CountersBalance
  <1>1. PoolInit => PoolInv
    BY PoolInitially
  <1>2. PoolInv /\ [PoolNext]_poolVars => PoolInv'
    BY PoolStep
  <1>3. PoolInv => CountersBalance
    <2>1. SUFFICES ASSUME PoolInv, NoCalls
                   PROVE  allocated = freed + reserved /\ reserved = SumFunction(held)
      BY DEF CountersBalance
    <2>2. Ins \in [Consumer -> Nat] /\ Outs \in [Consumer -> Nat]
      BY <2>1, InsOutsType DEF PoolInv
    <2>3. \A c \in Consumer : Ins[c] = 0 /\ Outs[c] = 0
      BY <2>1, NoCallFacts DEF NoCalls, Ins, Outs
    <2>4. SumFunction(Ins) = 0 /\ SumFunction(Outs) = 0
      <3>1. IsFiniteSet(Consumer)
        BY DEF PoolParametersOK
      <3>2. QED
        BY <2>2, <2>3, <3>1, SumFunctionFacts
    <2>5. QED
      BY <2>1, <2>4 DEF PoolInv
  <1>4. QED
    BY <1>1, <1>2, <1>3, PTL DEF PoolSpec
=============================================================================
