--------------------------- MODULE WasmUdfProofs ----------------------------
(***************************************************************************)
(* What an evaluation returns and what it leaves in the module's memory,    *)
(* for every batch, every number of arguments and every width of a word.    *)
(***************************************************************************)
EXTENDS WasmUdf, NatLemmas, TLAPS

----------------------------------------------------------------------------
(* Sequences                                                               *)

IsSequence(s) == \E n \in Nat : s = [i \in 1..n |-> s[i]]

LEMMA SequenceOfItsElements ==
    ASSUME NEW s, IsSequence(s), NEW e
    PROVE  \E S : s \in Seq(S) /\ e \in S
  <1>1. PICK n \in Nat : s = [i \in 1..n |-> s[i]]
    BY DEF IsSequence
  <1>2. PICK S : S = {s[i] : i \in 1..n} \cup {e}
    OBVIOUS
  <1>3. s \in [1..n -> S]
    BY <1>1, <1>2
  <1>4. s \in Seq(S) /\ e \in S
    BY <1>2, <1>3
  <1>5. QED
    BY <1>4

LEMMA AppendFacts ==
    ASSUME NEW s, IsSequence(s), NEW e
    PROVE  /\ IsSequence(Append(s, e)) /\ Last(Append(s, e)) = e
           /\ Len(s) \in Nat /\ DOMAIN s = 1..Len(s) /\ Len(Append(s, e)) = Len(s) + 1
           /\ DOMAIN Append(s, e) = 1..(Len(s) + 1)
           /\ Append(s, e)[Len(s) + 1] = e /\ \A i \in 1..Len(s) : Append(s, e)[i] = s[i]
  <1>1. PICK S : s \in Seq(S) /\ e \in S
    BY SequenceOfItsElements
  <1>2. PICK t : t = Append(s, e)
    OBVIOUS
  <1>3. /\ t \in Seq(S) /\ Len(s) \in Nat /\ DOMAIN s = 1..Len(s) /\ Len(t) = Len(s) + 1
        /\ t[Len(s) + 1] = e /\ \A i \in 1..Len(s) : t[i] = s[i]
    BY <1>1, <1>2
  <1>4. DOMAIN t = 1..(Len(s) + 1) /\ t = [i \in 1..(Len(s) + 1) |-> t[i]] /\ Len(s) + 1 \in Nat
    BY <1>3
  <1>5. IsSequence(t)
    BY <1>4 DEF IsSequence
  <1>6. Last(t) = e
    BY <1>3 DEF Last
  <1>7. QED
    BY <1>2, <1>3, <1>4, <1>5, <1>6

----------------------------------------------------------------------------
(* Buffers                                                                 *)

\* The bytes allocated for the arguments of the row that is evaluated, and for what
\* the function returned for it.
Input == PackedBytes(Params(row + 1)) + SizeBytes
Output == PackedBytes(<<Last(returned)>>) + SizeBytes

\* Which buffers are live at each step.
BuffersInv ==
    /\ IsSequence(returned)
    /\ pc \in {"create", "created", "write", "native", "ok"} => buffers = {}
    /\ pc = "invoke" => buffers = {<<"input", Input>>}
    /\ pc = "read" => buffers = {<<"input", Input>>, <<"output", Output>>}

LEMMA BuffersFails ==
    ASSUME BuffersInv, Fails("error") \/ Fails("panic")
    PROVE  BuffersInv'
  <1>1. pc' \in {"error", "panic"} /\ UNCHANGED returned
    BY DEF Fails
  <1>2. QED
    BY <1>1 DEF BuffersInv, IsSequence

LEMMA BuffersStep == BuffersInv /\ [Next]_vars => BuffersInv'
  <1> SUFFICES ASSUME BuffersInv, [Next]_vars PROVE BuffersInv'
    OBVIOUS
  <1>1. CASE CreateFunction
    BY <1>1 DEF CreateFunction, BuffersInv, IsSequence
  <1>2. CASE Evaluate
    BY <1>2 DEF Evaluate, BuffersInv, IsSequence
  <1>3. CASE WriteInput
    <2>1. CASE /\ pc = "write" /\ pc' = "invoke" /\ buffers' = {<<"input", Input>>}
               /\ UNCHANGED <<details, args, row, returned>>
      <3>1. Input' = Input
        BY <2>1 DEF Input, Params
      <3>2. QED
        BY <2>1, <3>1 DEF BuffersInv, IsSequence
    <2>2. QED
      BY <1>3, <2>1, BuffersFails DEF WriteInput, Input
  <1>4. CASE Invoke
    <2>1. CASE Fails("error")
      BY <2>1, BuffersFails
    <2>2. CASE ~ Fails("error")
      <3>1. PICK out : /\ returned' = Append(returned, out) /\ pc = "invoke" /\ pc' = "read"
                       /\ buffers' = buffers \cup {<<"output", PackedBytes(<<out>>) + SizeBytes>>}
                       /\ UNCHANGED <<details, args, row>>
        BY <1>4, <2>2 DEF Invoke
      <3>2. IsSequence(returned') /\ Last(returned') = out
        BY <3>1, AppendFacts DEF BuffersInv
      <3>3. Input' = Input /\ Output' = PackedBytes(<<out>>) + SizeBytes
        BY <3>1, <3>2 DEF Input, Output, Params
      <3>4. buffers' = {<<"input", Input>>} \cup {<<"output", Output'>>}
        BY <3>1, <3>3 DEF BuffersInv
      <3>5. QED
        BY <3>1, <3>2, <3>3, <3>4 DEF BuffersInv
    <2>3. QED
      BY <2>1, <2>2
  <1>5. CASE ReadOutput
    <2>1. CASE Fails("error")
      BY <2>1, BuffersFails
    <2>2. CASE ~ Fails("error")
      <3>1. /\ pc = "read" /\ pc' = "write" /\ UNCHANGED returned
            /\ buffers' = buffers \ {<<"input", Input>>, <<"output", Output>>}
        BY <1>5, <2>2 DEF ReadOutput, Input, Output, OutputSize
      <3>2. buffers' = {}
        BY <3>1 DEF BuffersInv
      <3>3. QED
        BY <3>1, <3>2 DEF BuffersInv, IsSequence
    <2>3. QED
      BY <2>1, <2>2
  <1>6. CASE DecodeResults
    <2>1. CASE Fails("error")
      BY <2>1, BuffersFails
    <2>2. CASE pc = "write" /\ pc' = "ok" /\ UNCHANGED <<buffers, returned>>
      BY <2>2 DEF BuffersInv, IsSequence
    <2>3. QED
      BY <1>6, <2>1, <2>2 DEF DecodeResults
  <1>7. CASE CallNative
    <2>1. CASE Fails("error") \/ Fails("panic")
      BY <2>1, BuffersFails
    <2>2. CASE ~ (Fails("error") \/ Fails("panic"))
      <3>1. PICK out : returned' = Append(returned, out) /\ pc = "native" /\ UNCHANGED <<pc, buffers>>
        BY <1>7, <2>2 DEF CallNative
      <3>2. IsSequence(returned')
        BY <3>1, AppendFacts DEF BuffersInv
      <3>3. QED
        BY <3>1, <3>2 DEF BuffersInv
    <2>3. QED
      BY <2>1, <2>2
  <1>8. CASE UnwrapNative
    <2>1. CASE Fails("panic")
      BY <2>1, BuffersFails
    <2>2. CASE pc = "native" /\ pc' = "ok" /\ UNCHANGED <<buffers, returned>>
      BY <2>2 DEF BuffersInv, IsSequence
    <2>3. QED
      BY <1>8, <2>1, <2>2 DEF UnwrapNative
  <1>9. CASE UNCHANGED vars
    BY <1>9 DEF vars, BuffersInv, IsSequence, Input, Output, Params
  <1>10. QED
    BY <1>1, <1>2, <1>3, <1>4, <1>5, <1>6, <1>7, <1>8, <1>9 DEF Next

LEMMA BuffersInit == Init => BuffersInv
  <1>1. SUFFICES ASSUME Init PROVE BuffersInv
    OBVIOUS
  <1>2. <<>> = [i \in 1..0 |-> <<>>[i]]
    OBVIOUS
  <1>3. IsSequence(<<>>)
    BY <1>2 DEF IsSequence
  <1>4. QED
    BY <1>1, <1>3 DEF Init, BuffersInv

\* Between rows, and after the last one, the module holds no buffer of the call: for
\* every batch, whatever the function returns and whichever call fails
\* (WasmMessagePackUDFInstance::call, read_udf_output).
THEOREM BuffersAlwaysFreed == Spec => []BuffersFreed
  <1>1. BuffersInv => BuffersFreed
    BY DEF BuffersInv, BuffersFreed
  <1>2. QED
    BY <1>1, BuffersInit, BuffersStep, PTL DEF Spec

----------------------------------------------------------------------------
(* Results                                                                 *)

\* What crosses the boundary as one MessagePack number or text: all values but
\* decimals.
Encoded == [kind : {"int", "str"}, high : {0}, low : Int]

LEMMA MeaningOfEncoded ==
    ASSUME ParametersOK, NEW e \in Encoded
    PROVE  Meaning(e) = e.low
  <1>1. e.high = 0 /\ e.low \in Int /\ e.kind # "decimal"
    BY DEF Encoded
  <1>2. PICK p : p = 2^Word
    OBVIOUS
  <1>3. 2^Word \in Int
    BY DEF ParametersOK
  <1>4. 0 * p = 0
    BY <1>2, <1>3
  <1>5. QED
    BY <1>1, <1>2, <1>4 DEF Meaning

LEMMA DecodeEncoded ==
    ASSUME ParametersOK, NEW t \in Types \ {"DECIMAL"}, NEW e \in Encoded, Decode(t, e) # <<>>
    PROVE  Decode(t, e)[1] = e.low
  <1>1. t \in {"SMALLINT", "BIGINT", "TEXT"}
    BY DEF ParametersOK, AllTypes
  <1>2. CASE t \in {"SMALLINT", "BIGINT"}
    <2>1. Decode(t, e) = DecodeInt(t, e)
      BY <1>2 DEF Decode
    <2>2. DecodeInt(t, e) = <<e.low>> \/ DecodeInt(t, e) = <<>>
      BY DEF DecodeInt
    <2>3. QED
      BY <2>1, <2>2
  <1>3. CASE t = "TEXT"
    <2>1. Decode(t, e) = IF e.kind = "str" THEN <<e.low>> ELSE <<>>
      BY <1>3 DEF Decode
    <2>2. QED
      BY <2>1
  <1>4. QED
    BY <1>1, <1>2, <1>3

LEMMA EncodeFacts ==
    ASSUME ParametersOK, NEW t \in Types \ {"DECIMAL"}, NEW v \in Values
    PROVE  Encode(t, v) \in Encoded
  <1>1. get_arrow_value(v) \in Int
    BY DEF get_arrow_value, ParametersOK
  <1>2. Encode(t, v) = [kind |-> IF t = "TEXT" THEN "str" ELSE "int", high |-> 0, low |-> get_arrow_value(v)]
    BY DEF Encode
  <1>3. QED
    BY <1>1, <1>2 DEF Encoded

\* The columns of a batch, as DataFusion passes them.
Column(n) == {Array(vs) : vs \in [1..n -> Values]} \cup {Scalar(v) : v \in Values}

LEMMA ColumnFacts ==
    ASSUME NEW n \in Nat, NEW c \in Column(n)
    PROVE  /\ c.rows \in Seq(Values) /\ Len(c.rows) \in {n, 1}
           /\ ~ c.array => c.rows[1] \in Values
  <1>1. CASE c \in {Array(vs) : vs \in [1..n -> Values]}
    <2>1. PICK vs \in [1..n -> Values] : c = Array(vs)
      BY <1>1
    <2>2. c.rows = vs /\ c.array
      BY <2>1 DEF Array
    <2>3. vs \in Seq(Values) /\ Len(vs) = n
      OBVIOUS
    <2>4. QED
      BY <2>2, <2>3
  <1>2. CASE c \in {Scalar(v) : v \in Values}
    <2>1. PICK v \in Values : c = Scalar(v)
      BY <1>2
    <2>2. c.rows = <<v>> /\ ~ c.array
      BY <2>1 DEF Scalar
    <2>3. <<v>> \in Seq(Values) /\ Len(<<v>>) = 1 /\ <<v>>[1] = v
      OBVIOUS
    <2>4. QED
      BY <2>2, <2>3
  <1>3. QED
    BY <1>1, <1>2 DEF Column

\* A scalar becomes an array of the length of the longest column.
LEMMA ColumnsFacts ==
    ASSUME NEW n \in Nat, NEW D, NEW cs \in [D -> Column(n)]
    PROVE  LET as == columnar_values_to_array(cs)
           IN  DOMAIN as = D /\ \A i \in D : as[i].rows \in Seq(Values)
  <1>1. PICK as : as = columnar_values_to_array(cs)
    OBVIOUS
  <1>2. DOMAIN as = D
    BY <1>1 DEF columnar_values_to_array
  <1>3. ASSUME NEW i \in D
        PROVE  as[i].rows \in Seq(Values)
    <2>1. cs[i] \in Column(n) /\ DOMAIN cs = D
      OBVIOUS
    <2>2. cs[i].rows \in Seq(Values) /\ (~ cs[i].array => cs[i].rows[1] \in Values)
      BY <2>1, ColumnFacts
    <2>3. CASE cs[i].array
      <3>1. as[i] = cs[i]
        BY <1>1, <2>1, <2>3 DEF columnar_values_to_array
      <3>2. QED
        BY <2>2, <3>1
    <2>4. CASE ~ cs[i].array
      <3>1. PICK m : m = InferredLength(cs)
        OBVIOUS
      <3>2. as[i] = Array([j \in 1..m |-> cs[i].rows[1]])
        BY <1>1, <2>1, <2>4, <3>1 DEF columnar_values_to_array
      <3>3. m \in Nat
        <4>1. PICK T : T = {0} \cup {Len(cs[j].rows) : j \in D}
          OBVIOUS
        <4>2. \A j \in D : Len(cs[j].rows) \in 0..(n + 1)
          <5>1. TAKE j \in D
          <5>2. PICK x : x = Len(cs[j].rows) /\ x \in {n, 1}
            BY ColumnFacts
          <5>3. x = n \/ x = 1
            BY <5>2
          <5>4. n \in 0..(n + 1) /\ 1 \in 0..(n + 1)
            OBVIOUS
          <5>5. QED
            BY <5>2, <5>3, <5>4
        <4>3. T # {} /\ T \subseteq 0..(n + 1) /\ n + 1 \in Nat
          BY <4>1, <4>2
        <4>4. Max(T) \in T
          BY <4>3, GreatestUpTo
        <4>5. m = Max(T)
          BY <2>1, <3>1, <4>1 DEF InferredLength
        <4>6. m \in 0..(n + 1)
          BY <4>3, <4>4, <4>5
        <4>7. QED
          BY ONLY n \in Nat, m \in 0..(n + 1)
      <3>4. [j \in 1..m |-> cs[i].rows[1]] \in Seq(Values)
        BY <2>2, <2>4, <3>3
      <3>5. as[i].rows = [j \in 1..m |-> cs[i].rows[1]]
        BY <3>2 DEF Array
      <3>6. QED
        BY <3>4, <3>5
    <2>5. QED
      BY <2>3, <2>4
  <1>4. QED
    BY <1>1, <1>2, <1>3

----------------------------------------------------------------------------
DetailsOK ==
    /\ \E n \in Nat : details.inputs \in [1..n -> Types]
    /\ details.output \in Types /\ details.guest \in Guests
ArgsOK ==
    /\ 1 \in DOMAIN details.inputs /\ 1 \in DOMAIN args /\ args[1].rows \in Seq(Values)

\* One value was returned for each row so far, and one for the row that is read.
ResultsInv ==
    /\ DetailsOK
    /\ row \in Nat
    /\ pc \notin {"error", "panic"} => Len(returned) = IF pc = "read" THEN row + 1 ELSE row
    /\ \A i \in DOMAIN returned : returned[i] \in Encoded
    /\ pc \in {"write", "invoke", "read", "native"} => ArgsOK
    /\ pc = "invoke" => row < RowCount
    /\ ExactOrError

LEMMA ReturnedEncoded ==
    ASSUME ParametersOK, "DECIMAL" \notin Types, DetailsOK, ArgsOK, row \in Nat, row < RowCount,
           details.guest # "trap"
    PROVE  GuestReturns(Params(row + 1)) \in Encoded
  <1>1. details.guest \in {"echo", "large", "text"}
    BY DEF DetailsOK, ParametersOK
  <1>2. CASE details.guest = "echo"
    <2>1. GuestReturns(Params(row + 1)) = Params(row + 1)[1]
      BY <1>2 DEF GuestReturns
    <2>2. Params(row + 1)[1] = Encode(details.inputs[1], args[1].rows[row + 1])
      BY DEF Params, ArgsOK
    <2>3. details.inputs[1] \in Types
      BY DEF DetailsOK, ArgsOK
    <2>4. args[1].rows[row + 1] \in Values
      <3>1. PICK q \in Seq(Values) : q = args[1].rows
        BY DEF ArgsOK
      <3>2. row + 1 \in 1..Len(q)
        BY <3>1 DEF RowCount
      <3>3. q[row + 1] \in Values
        BY <3>2
      <3>4. QED
        BY <3>1, <3>3
    <2>5. QED
      BY <2>1, <2>2, <2>3, <2>4, EncodeFacts
  <1>3. CASE details.guest = "large"
    <2>1. GuestReturns(Params(row + 1)) = [kind |-> "int", high |-> 0, low |-> 2^(Word - 1) - 1]
      BY <1>3 DEF GuestReturns
    <2>2. Word - 1 \in Nat
      BY DEF ParametersOK
    <2>3. 2^(Word - 1) \in Int
      BY <2>2
    <2>4. QED
      BY <2>1, <2>3 DEF Encoded
  <1>4. CASE details.guest = "text"
    BY <1>4 DEF GuestReturns, Encoded
  <1>5. QED
    BY <1>1, <1>2, <1>3, <1>4

LEMMA ResultsFails ==
    ASSUME ResultsInv, Fails("error") \/ Fails("panic")
    PROVE  ResultsInv'
  <1>1. pc' \in {"error", "panic"} /\ UNCHANGED <<details, args, row, returned, results>>
    BY DEF Fails
  <1>2. DetailsOK' /\ ExactOrError'
    BY <1>1 DEF ResultsInv, DetailsOK, ExactOrError
  <1>3. QED
    BY <1>1, <1>2 DEF ResultsInv

LEMMA ReturnedGrows ==
    ASSUME IsSequence(returned), NEW out \in Encoded, returned' = Append(returned, out),
           \A i \in DOMAIN returned : returned[i] \in Encoded
    PROVE  \A i \in DOMAIN returned' : returned'[i] \in Encoded
  <1>1. PICK q, k : q = Append(returned, out) /\ k = Len(returned)
    OBVIOUS
  <1>2. /\ k \in Nat /\ DOMAIN returned = 1..k /\ DOMAIN q = 1..(k + 1)
        /\ q[k + 1] = out /\ \A i \in 1..k : q[i] = returned[i]
    BY <1>1, AppendFacts
  <1>3. ASSUME NEW i \in 1..(k + 1) PROVE q[i] \in Encoded
    <2>1. i \in 1..k \/ i = k + 1
      BY <1>2
    <2>2. QED
      BY <1>2, <2>1
  <1>4. QED
    BY <1>1, <1>2, <1>3

\* A result has one element for each row, with what was returned for it.
LEMMA ResultsExact ==
    ASSUME IsSequence(returned), Len(returned) = RowCount, NEW rs,
           rs = [i \in DOMAIN returned |-> rs[i]],
           \A i \in DOMAIN returned : rs[i] = Meaning(returned[i])
    PROVE  Len(rs) = RowCount /\ \A i \in DOMAIN rs : rs[i] = Meaning(returned[i])
  <1>1. PICK n \in Nat : DOMAIN returned = 1..n /\ Len(returned) = n
    BY AppendFacts
  <1>2. rs = [i \in 1..n |-> rs[i]]
    BY <1>1
  <1>3. DOMAIN rs = 1..n /\ Len(rs) = n
    BY <1>2
  <1>4. QED
    BY <1>1, <1>3

LEMMA ResultsStep ==
    ASSUME ParametersOK, "DECIMAL" \notin Types, BuffersInv, ResultsInv, [Next]_vars
    PROVE  ResultsInv'
  <1>1. CASE CreateFunction
    <2>1. /\ pc = "create" /\ pc' \in {"panic", "rejected", "created"}
          /\ UNCHANGED <<details, args, row, returned, results>>
      BY <1>1 DEF CreateFunction
    <2>2. DetailsOK' /\ ExactOrError'
      BY <2>1 DEF ResultsInv, DetailsOK, ExactOrError
    <2>3. QED
      BY <2>1, <2>2 DEF ResultsInv
  <1>2. CASE Evaluate
    <2>1. /\ pc = "created" /\ UNCHANGED <<details, row, returned, results>>
          /\ pc' = IF DOMAIN details.inputs = {} THEN "panic"
                   ELSE IF details.language = MessagePack THEN "write" ELSE "native"
      BY <1>2 DEF Evaluate
    <2>2. PICK n \in 0..MaxRows : \E cs \in [DOMAIN details.inputs -> Column(n)] :
                args' = columnar_values_to_array(cs)
      BY <1>2 DEF Evaluate, Column
    <2>3. PICK cs \in [DOMAIN details.inputs -> Column(n)] : args' = columnar_values_to_array(cs)
      BY <2>2
    <2>4. n \in Nat
      BY <2>2
    <2>5. DOMAIN args' = DOMAIN details.inputs /\ \A i \in DOMAIN details.inputs : args'[i].rows \in Seq(Values)
      BY <2>3, <2>4, ColumnsFacts
    <2>6. DetailsOK'
      BY <2>1 DEF ResultsInv, DetailsOK
    <2>7. pc' # "panic" => ArgsOK'
      <3>1. SUFFICES ASSUME DOMAIN details.inputs # {} PROVE ArgsOK'
        BY <2>1
      <3>2. PICK k \in Nat : details.inputs \in [1..k -> Types]
        BY DEF ResultsInv, DetailsOK
      <3>3. DOMAIN details.inputs = 1..k /\ 1 \in 1..k
        BY <3>1, <3>2
      <3>4. QED
        BY <2>1, <2>5, <3>3 DEF ArgsOK
    <2>8. pc' \in {"panic", "write", "native"}
      BY <2>1
    <2>9. QED
      BY <2>1, <2>6, <2>7, <2>8 DEF ResultsInv, ExactOrError
  <1>3. CASE WriteInput
    <2>1. CASE Fails("error") \/ Fails("panic")
      BY <2>1, ResultsFails
    <2>2. CASE /\ pc = "write" /\ pc' = "invoke" /\ row < RowCount
               /\ UNCHANGED <<details, args, row, returned, results>>
      <3>1. DetailsOK' /\ ArgsOK' /\ row' < RowCount'
        BY <2>2 DEF ResultsInv, DetailsOK, ArgsOK, RowCount
      <3>2. QED
        BY <2>2, <3>1 DEF ResultsInv, ExactOrError
    <2>3. QED
      BY <1>3, <2>1, <2>2 DEF WriteInput
  <1>4. CASE Invoke
    <2>1. CASE Fails("error")
      BY <2>1, ResultsFails
    <2>2. CASE ~ Fails("error")
      <3>1. PICK out : /\ out = GuestReturns(Params(row + 1)) /\ returned' = Append(returned, out)
                       /\ details.guest # "trap" /\ pc = "invoke" /\ pc' = "read"
                       /\ UNCHANGED <<details, args, row, results>>
        BY <1>4, <2>2 DEF Invoke
      <3>2. DetailsOK /\ ArgsOK /\ row \in Nat /\ row < RowCount /\ IsSequence(returned)
        BY <3>1 DEF ResultsInv, BuffersInv
      <3>3. out \in Encoded
        BY <3>1, <3>2, ReturnedEncoded
      <3>4. \A i \in DOMAIN returned' : returned'[i] \in Encoded
        BY <3>1, <3>2, <3>3, ReturnedGrows DEF ResultsInv
      <3>5. Len(returned') = row + 1
        BY <3>1, <3>2, AppendFacts DEF ResultsInv
      <3>6. DetailsOK' /\ ArgsOK'
        BY <3>1, <3>2 DEF DetailsOK, ArgsOK
      <3>7. QED
        BY <3>1, <3>2, <3>4, <3>5, <3>6 DEF ResultsInv, ExactOrError
    <2>3. QED
      BY <2>1, <2>2
  <1>5. CASE ReadOutput
    <2>1. CASE Fails("error")
      BY <2>1, ResultsFails
    <2>2. CASE ~ Fails("error")
      <3>1. /\ pc = "read" /\ pc' = "write" /\ row' = row + 1
            /\ UNCHANGED <<details, args, returned, results>>
        BY <1>5, <2>2 DEF ReadOutput
      <3>2. DetailsOK' /\ ArgsOK' /\ row' \in Nat /\ Len(returned') = row'
        BY <3>1 DEF ResultsInv, DetailsOK, ArgsOK
      <3>3. QED
        BY <3>1, <3>2 DEF ResultsInv, ExactOrError
    <2>3. QED
      BY <2>1, <2>2
  <1>6. CASE DecodeResults
    <2>1. CASE Fails("error")
      BY <2>1, ResultsFails
    <2>2. CASE ~ Fails("error")
      <3>1. /\ pc = "write" /\ pc' = "ok" /\ row = RowCount
            /\ \A i \in DOMAIN returned : Decoded(returned)[i] # <<>>
            /\ results' = [i \in DOMAIN returned |-> Decoded(returned)[i][1]]
            /\ UNCHANGED <<details, args, row, returned>>
        BY <1>6, <2>2 DEF DecodeResults
      <3>2. \A i \in DOMAIN returned : results'[i] = Meaning(returned[i])
        <4>1. TAKE i \in DOMAIN returned
        <4>2. PICK e \in Encoded : e = returned[i]
          BY DEF ResultsInv
        <4>3. PICK t \in Types \ {"DECIMAL"} : t = details.output
          BY DEF ResultsInv, DetailsOK
        <4>4. Decoded(returned)[i] = Decode(t, e)
          BY <4>2, <4>3 DEF Decoded
        <4>5. results'[i] = Decode(t, e)[1] /\ Decode(t, e) # <<>>
          BY <3>1, <4>4
        <4>6. QED
          BY <4>2, <4>5, DecodeEncoded, MeaningOfEncoded
      <3>3. IsSequence(returned) /\ Len(returned) = RowCount
        BY <3>1 DEF BuffersInv, ResultsInv
      <3>4. results' = [i \in DOMAIN returned |-> results'[i]]
        BY <3>1
      <3>5. Len(results') = RowCount /\ \A i \in DOMAIN results' : results'[i] = Meaning(returned[i])
        BY <3>2, <3>3, <3>4, ResultsExact
      <3>6. ExactOrError' /\ DetailsOK'
        BY <3>1, <3>5 DEF ExactOrError, RowCount, DetailsOK, ResultsInv
      <3>7. QED
        BY <3>1, <3>6 DEF ResultsInv
    <2>3. QED
      BY <2>1, <2>2
  <1>7. CASE CallNative
    <2>1. CASE Fails("error") \/ Fails("panic")
      BY <2>1, ResultsFails
    <2>2. CASE ~ (Fails("error") \/ Fails("panic"))
      <3>1. PICK out : /\ out = GuestReturns(Params(row + 1)) /\ returned' = Append(returned, out)
                       /\ details.guest # "trap" /\ pc = "native" /\ row' = row + 1 /\ row < RowCount
                       /\ UNCHANGED <<details, args, pc, results>>
        BY <1>7, <2>2 DEF CallNative
      <3>2. DetailsOK /\ ArgsOK /\ row \in Nat /\ IsSequence(returned)
        BY <3>1 DEF ResultsInv, BuffersInv
      <3>3. out \in Encoded
        BY <3>1, <3>2, ReturnedEncoded
      <3>4. \A i \in DOMAIN returned' : returned'[i] \in Encoded
        BY <3>1, <3>2, <3>3, ReturnedGrows DEF ResultsInv
      <3>5. Len(returned') = row'
        BY <3>1, <3>2, AppendFacts DEF ResultsInv
      <3>6. DetailsOK' /\ ArgsOK'
        BY <3>1, <3>2 DEF DetailsOK, ArgsOK
      <3>7. QED
        BY <3>1, <3>2, <3>4, <3>5, <3>6 DEF ResultsInv, ExactOrError
    <2>3. QED
      BY <2>1, <2>2
  <1>8. CASE UnwrapNative
    <2>1. CASE Fails("panic")
      BY <2>1, ResultsFails
    <2>2. CASE ~ Fails("panic")
      <3>1. /\ pc = "native" /\ pc' = "ok" /\ row = RowCount
            /\ results' = [i \in DOMAIN returned |-> returned[i].low]
            /\ UNCHANGED <<details, args, row, returned>>
        BY <1>8, <2>2 DEF UnwrapNative
      <3>2. \A i \in DOMAIN returned : results'[i] = Meaning(returned[i])
        <4>1. TAKE i \in DOMAIN returned
        <4>2. PICK e \in Encoded : e = returned[i]
          BY DEF ResultsInv
        <4>3. results'[i] = e.low
          BY <3>1, <4>2
        <4>4. QED
          BY <4>2, <4>3, MeaningOfEncoded
      <3>3. IsSequence(returned) /\ Len(returned) = RowCount
        BY <3>1 DEF BuffersInv, ResultsInv
      <3>4. results' = [i \in DOMAIN returned |-> results'[i]]
        BY <3>1
      <3>5. Len(results') = RowCount /\ \A i \in DOMAIN results' : results'[i] = Meaning(returned[i])
        BY <3>2, <3>3, <3>4, ResultsExact
      <3>6. ExactOrError' /\ DetailsOK'
        BY <3>1, <3>5 DEF ExactOrError, RowCount, DetailsOK, ResultsInv
      <3>7. QED
        BY <3>1, <3>6 DEF ResultsInv
    <2>3. QED
      BY <2>1, <2>2
  <1>9. CASE UNCHANGED vars
    <2>1. UNCHANGED <<details, args, pc, row, returned, results>>
      BY <1>9 DEF vars
    <2>2. DetailsOK' = DetailsOK /\ ArgsOK' = ArgsOK /\ ExactOrError' = ExactOrError /\ RowCount' = RowCount
      BY <2>1 DEF DetailsOK, ArgsOK, ExactOrError, RowCount
    <2>3. QED
      BY <2>1, <2>2 DEF ResultsInv
  <1>10. QED
    BY <1>1, <1>2, <1>3, <1>4, <1>5, <1>6, <1>7, <1>8, <1>9 DEF Next

LEMMA ResultsInit ==
    ASSUME ParametersOK, Init
    PROVE  ResultsInv
  <1>1. PICK l \in Languages, g \in Guests, e \in BOOLEAN, t \in Types, n \in 0..MaxArgs :
             \E is \in [1..n -> Types] :
                details = [language |-> l, inputs |-> is, output |-> t, guest |-> g, exported |-> e]
    BY DEF Init
  <1>2. PICK is \in [1..n -> Types] :
                details = [language |-> l, inputs |-> is, output |-> t, guest |-> g, exported |-> e]
    BY <1>1
  <1>3. n \in Nat /\ details.inputs \in [1..n -> Types] /\ details.output \in Types /\ details.guest \in Guests
    BY <1>2 DEF ParametersOK
  <1>4. DetailsOK
    BY <1>3 DEF DetailsOK
  <1>5. pc = "create" /\ row = 0 /\ returned = <<>>
    BY DEF Init
  <1>6. QED
    BY <1>4, <1>5 DEF ResultsInv, ExactOrError

\* An evaluation that succeeds has one result for each row, in order, and each is
\* what the function returned for the row: a number that does not fit its type is an
\* error and never cut, for every width of a word, mix of arrays and scalars and
\* order of failures (messagepack_decode_results, make_scalar_function_from_wasm).
\* Decimals are excluded: their lower half is read with a sign it does not have.
THEOREM ResultsAlwaysExact ==
    ASSUME ParametersOK, "DECIMAL" \notin Types
    PROVE  Spec => []ExactOrError
  <1>1. Init => BuffersInv /\ ResultsInv
    BY BuffersInit, ResultsInit
  <1>2. BuffersInv /\ ResultsInv /\ [Next]_vars => BuffersInv' /\ ResultsInv'
    BY BuffersStep, ResultsStep
  <1>3. ResultsInv => ExactOrError
    BY DEF ResultsInv
  <1>4. QED
    BY <1>1, <1>2, <1>3, PTL DEF Spec
=============================================================================
