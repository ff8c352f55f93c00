------------------------------ MODULE WasmUdf -------------------------------
(***************************************************************************)
(* WASM user-defined functions (wasm_udf/): the checks of CREATE FUNCTION,  *)
(* then one evaluation over a batch, row by row, in the language "wasm"     *)
(* (native values) or "wasmMessagePack" (arguments and result in buffers of *)
(* the module's own memory).  The module is external: its alloc and its     *)
(* function may trap and return anything.  Machine words have Word bits     *)
(* (64 in the code), a decimal has two.                                     *)
(***************************************************************************)
EXTENDS Integers, SequencesExt, FiniteSetsExt

CONSTANTS Types,      \* argument and result types of the function
          Languages,  \* languages it is declared in
          Guests,     \* what the module's function may do
          Values,     \* values of a column
          MaxArgs,    \* bound on the arguments
          MaxRows,    \* bound on the rows of a batch
          Word        \* bits of a machine word

VARIABLES details,    \* CreateFunctionDetails, and what the module does
          args,       \* columns of the batch: an array or a scalar each
          pc,
          row,        \* rows evaluated so far
          buffers,    \* live buffers of the call in the module's memory
          extent,     \* bytes written from the start of the input buffer
          returned,   \* what the function returned, row by row
          results     \* the decoded array

vars == <<details, args, pc, row, buffers, extent, returned, results>>

SizeBytes == 4      \* SIZE_BYTE_COUNT: the size prefix is one i32
UsizeBytes == 8     \* what usize::to_ne_bytes() writes
Null == 1000        \* no value: outside the range of every type
AllTypes == {"SMALLINT", "BIGINT", "TEXT", "DECIMAL"}
Wasm == "wasm"
MessagePack == "wasmMessagePack"

(* What the constants may be. *)
ParametersOK ==
    /\ Types \subseteq AllTypes /\ Languages \subseteq {Wasm, MessagePack}
    /\ Guests \subseteq {"echo", "large", "text", "trap"}
    /\ Values \subseteq Int /\ MaxArgs \in Nat /\ MaxRows \in Nat /\ Word \in Nat \ {0}

(***************************************************************************)
(* Values                                                                  *)
(***************************************************************************)
Signed(x, bits) == LET m == x % 2^bits IN IF m >= 2^(bits - 1) THEN m - 2^bits ELSE m
Fits(x, bits) == x \in -(2^(bits - 1))..(2^(bits - 1) - 1)

Small == Word - 1   \* bits of a SMALLINT, fewer than a word

(* arr.value(row_ix): a null row reads as the default *)
get_arrow_value(v) == IF v = Null THEN 0 ELSE v

(* messagepack_encode_input_value: a decimal goes as its two words *)
Encode(t, v) == LET x == get_arrow_value(v)
                IN  IF t = "DECIMAL" THEN [kind |-> "decimal", high |-> x \div 2^Word, low |-> Signed(x, Word)]
                    ELSE [kind |-> IF t = "TEXT" THEN "str" ELSE "int", high |-> 0, low |-> x]

(* The number a MessagePack value stands for *)
Meaning(e) == e.high * 2^Word + (IF e.kind = "decimal" THEN e.low % 2^Word ELSE e.low)

DecodeInt_Wrap(t, e) == IF e.kind = "int" THEN <<Signed(e.low, Small)>> ELSE <<>>

(* i64, narrowed with try_from; the empty sequence is an error *)
DecodeInt(t, e) == IF e.kind = "int" /\ (t = "SMALLINT" => Fits(e.low, Small)) THEN <<e.low>> ELSE <<>>

(* low as i128 + (high as i128 << 64) *)
DecodeDecimal(e) == IF e.kind = "decimal" THEN <<Signed(e.low + e.high * 2^Word, 2 * Word)>> ELSE <<>>

(* messagepack_decode_results of one row *)
Decode(t, e) == CASE t \in {"SMALLINT", "BIGINT"} -> DecodeInt(t, e)
                  [] t = "DECIMAL" -> DecodeDecimal(e)
                  [] t = "TEXT" -> IF e.kind = "str" THEN <<e.low>> ELSE <<>>

(* Bytes of MessagePack values: small integers take one, a short text two,  *)
(* a decimal an array of four integers                                      *)
ItemBytes(es) == FoldSeq(LAMBDA e, n : n + (CASE e.kind = "int" -> 1 [] e.kind = "str" -> 2
                                            [] e.kind = "decimal" -> 5), 0, es)

PackedBytes(es) == 1 + ItemBytes(es)

(***************************************************************************)
(* CREATE FUNCTION                                                         *)
(***************************************************************************)
Init == /\ \E l \in Languages, g \in Guests, e \in BOOLEAN, t \in Types, n \in 0..MaxArgs :
             \E is \in [1..n -> Types] :
                details = [language |-> l, inputs |-> is, output |-> t, guest |-> g, exported |-> e]
        /\ args = <<>> /\ pc = "create" /\ row = 0
        /\ buffers = {} /\ extent = 0 /\ returned = <<>> /\ results = <<>>

(* get_wasm_type: the basic integer and float types only *)
HasWasmType(t) == t = "BIGINT"

(* create_udf_from_wasm: argument types are unwrapped, the result type is   *)
(* an error; then the module is loaded and its export looked for            *)
CreateFunction ==
    /\ pc = "create"
    /\ pc' = IF details.language = Wasm /\ \E i \in DOMAIN details.inputs : ~ HasWasmType(details.inputs[i])
             THEN "panic"
             ELSE IF (details.language = Wasm /\ ~ HasWasmType(details.output)) \/ ~ details.exported
             THEN "rejected" ELSE "created"
    /\ UNCHANGED <<details, args, row, buffers, extent, returned, results>>

(***************************************************************************)
(* Evaluation of a batch                                                   *)
(***************************************************************************)
Array(vs) == [array |-> TRUE, rows |-> vs]
Scalar(v) == [array |-> FALSE, rows |-> <<v>>]

(* columnar_values_to_array: scalars are repeated to the longest argument,  *)
(* where a scalar counts as one row; arrays stay as they are                *)
InferredLength(cs) == Max({0} \cup {Len(cs[i].rows) : i \in DOMAIN cs})
columnar_values_to_array(cs) ==
    [i \in DOMAIN cs |-> IF cs[i].array THEN cs[i]
                         ELSE Array([j \in 1..InferredLength(cs) |-> cs[i].rows[1]])]

(* DataFusion calls the function with the columns of a batch of n rows *)
Evaluate ==
    /\ pc = "created"
    /\ \E n \in 0..MaxRows :
        \E cs \in [DOMAIN details.inputs ->
                     {Array(vs) : vs \in [1..n -> Values]} \cup {Scalar(v) : v \in Values}] :
            args' = columnar_values_to_array(cs)
    /\ pc' = IF DOMAIN details.inputs = {} THEN "panic"    \* args.first().unwrap()
             ELSE IF details.language = MessagePack THEN "write" ELSE "native"
    /\ UNCHANGED <<details, row, buffers, extent, returned, results>>

RowCount == Len(args[1].rows)
Params(r) == [i \in DOMAIN args |-> Encode(details.inputs[i], args[i].rows[r])]
HasRow(r) == \A i \in DOMAIN args : r <= Len(args[i].rows)

(* What the function returns, if it does not trap *)
GuestReturns(params) ==
    CASE details.guest = "echo" -> params[1]
      [] details.guest = "large" -> [kind |-> "int", high |-> 0, low |-> 2^(Word - 1) - 1]
      [] details.guest = "text" -> [kind |-> "str", high |-> 0, low |-> 0]

Fails(where) == /\ pc' = where
                /\ UNCHANGED <<details, args, row, buffers, extent, returned, results>>

(* write_udf_input: a buffer for the prefix and the arguments, the length   *)
(* as a usize at its start, then the arguments after the prefix.  A column  *)
(* that is too short is indexed out of bounds.                              *)
WriteInput ==
    LET n == PackedBytes(Params(row + 1)) + SizeBytes
    IN  /\ pc = "write" /\ row < RowCount
        /\ \/ /\ HasRow(row + 1)
              /\ buffers' = {<<"input", n>>}
              /\ extent' = Max({UsizeBytes, n})
              /\ pc' = "invoke"
              /\ UNCHANGED <<details, args, row, returned, results>>
           \/ HasRow(row + 1) /\ Fails("error")
           \/ ~ HasRow(row + 1) /\ Fails("panic")

(* The function allocates and returns its output buffer, or traps *)
Invoke ==
    /\ pc = "invoke"
    /\ \/ /\ details.guest # "trap"
          /\ LET out == GuestReturns(Params(row + 1))
             IN  /\ returned' = Append(returned, out)
                 /\ buffers' = buffers \cup {<<"output", PackedBytes(<<out>>) + SizeBytes>>}
          /\ pc' = "read"
          /\ UNCHANGED <<details, args, row, extent, results>>
       \/ details.guest = "trap" /\ Fails("error")

OutputSize_NoPrefix(out) == PackedBytes(<<out>>)

(* read_udf_output: the size to free includes the prefix *)
OutputSize(out) == PackedBytes(<<out>>) + SizeBytes

(* The value is read, and both buffers are given back with their sizes; any *)
(* of the three steps may fail, which ends the evaluation                   *)
ReadOutput ==
    LET in == PackedBytes(Params(row + 1)) + SizeBytes
    IN  /\ pc = "read"
        /\ \/ /\ buffers' = buffers \ {<<"input", in>>, <<"output", OutputSize(Last(returned))>>}
              /\ row' = row + 1
              /\ pc' = "write"
              /\ UNCHANGED <<details, args, extent, returned, results>>
           \/ Fails("error")

Decoded(es) == [i \in DOMAIN es |-> Decode(details.output, es[i])]

(* All rows are done: the results are decoded, or the first error returned *)
DecodeResults ==
    /\ pc = "write" /\ row = RowCount
    /\ \/ /\ \A i \in DOMAIN returned : Decoded(returned)[i] # <<>>
          /\ results' = [i \in DOMAIN returned |-> Decoded(returned)[i][1]]
          /\ pc' = "ok"
          /\ UNCHANGED <<details, args, row, buffers, extent, returned>>
       \/ /\ \E i \in DOMAIN returned : Decoded(returned)[i] = <<>>
          /\ Fails("error")

(* make_scalar_function_from_wasm: one call per row; a result of another    *)
(* type than the declared one is unwrapped                                  *)
CallNative ==
    /\ pc = "native" /\ row < RowCount
    /\ \/ /\ HasRow(row + 1) /\ details.guest # "trap"
          /\ returned' = Append(returned, GuestReturns(Params(row + 1)))
          /\ row' = row + 1
          /\ UNCHANGED <<details, args, pc, buffers, extent, results>>
       \/ HasRow(row + 1) /\ details.guest = "trap" /\ Fails("error")
       \/ ~ HasRow(row + 1) /\ Fails("panic")

UnwrapNative ==
    /\ pc = "native" /\ row = RowCount
    /\ \/ /\ \A i \in DOMAIN returned : returned[i].kind = "int"
          /\ results' = [i \in DOMAIN returned |-> returned[i].low]
          /\ pc' = "ok"
          /\ UNCHANGED <<details, args, row, buffers, extent, returned>>
       \/ (\E i \in DOMAIN returned : returned[i].kind # "int") /\ Fails("panic")

Next == \/ CreateFunction \/ Evaluate
        \/ WriteInput \/ Invoke \/ ReadOutput \/ DecodeResults
        \/ CallNative \/ UnwrapNative

Spec == Init /\ [][Next]_vars

(***************************************************************************)
(* Properties                                                              *)
(***************************************************************************)
(* An evaluation that succeeds has, for every row and in order, exactly     *)
(* what the function returned for it, whatever the types (but for decimals, *)
(* whose halves are added wrongly, wasm.rs:524), the mix of arrays and      *)
(* scalars and the order of failures (messagepack_decode_results).          *)
ExactOrError ==
    pc = "ok" => /\ Len(results) = RowCount
                 /\ \A i \in DOMAIN results : results[i] = Meaning(returned[i])

(* Between rows the module holds no buffer of an earlier row: both were     *)
(* given back with the sizes they were allocated with                       *)
(* (WasmMessagePackUDFInstance::call).                                      *)
BuffersFreed == pc \in {"write", "ok"} => buffers = {}

=============================================================================
