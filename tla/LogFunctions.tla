----------------------------- MODULE LogFunctions ------------------------------
(***************************************************************************)
(* LogFunctionManager.cpp, by which the pass picks the function that logs  *)
(* a value of some type, and library/binaryinstrumentation.c, where that   *)
(* function makes an entry of the value and of the ids it is given.        *)
(*                                                                         *)
(* Types: integers, "wide" for the widths the pass gives up at, "float",   *)
(* "double", "ptr", and "struct" for all others.  An entry holds no value  *)
(* here, but the member of the union that is set to it.                    *)
(***************************************************************************)
EXTENDS Integers

Bytes == [i1 |-> 1, i8 |-> 1, i16 |-> 2, i32 |-> 4, i64 |-> 8,
          float |-> 4, double |-> 8, ptr |-> 8]

Types == DOMAIN Bytes \cup {"wide", "struct"}

Floats == {"float", "double"}

NULL == "NULL"

-----------------------------------------------------------------------------
(* The table loadFunctions fills, of integers by width.                    *)
logFunctions ==
  [i1 |-> "logAccessI8", i8 |-> "logAccessI8", i16 |-> "logAccessI16",
   i32 |-> "logAccessI32", i64 |-> "logAccessI64"]

(* For an access in a function, or in __dinamite_tracepoint.               *)
getLogFunction(type, tracepoint) ==
  CASE type \in Floats -> "logAccessF64"
    [] type = "ptr" -> IF tracepoint THEN "logAccessStaticString" ELSE "logAccessPtr"
    [] type \in DOMAIN logFunctions -> logFunctions[type]
    [] OTHER -> NULL

-----------------------------------------------------------------------------
(* The library.                                                            *)

(* The type of the parameter each function takes the value by, and the     *)
(* value_type it notes.                                                    *)
Parameter ==
  [logAccessI8 |-> "i8", logAccessI16 |-> "i16", logAccessI32 |-> "i32",
   logAccessI64 |-> "i64", logAccessF64 |-> "double", logAccessPtr |-> "ptr",
   logAccessStaticString |-> "ptr"]

ValueType ==
  [logAccessI8 |-> "I8", logAccessI16 |-> "I16", logAccessI32 |-> "I32",
   logAccessI64 |-> "I64", logAccessF64 |-> "F64", logAccessPtr |-> "PTR",
   logAccessStaticString |-> "PTR"]

(* The value as the pass casts it for the function: floats by FPCast, one  *)
(* bit by ZExt, everything else by a BitCast that must keep the width.     *)
CastLegal(type, param) ==
  \/ type \in Floats /\ param \in Floats
  \/ type = "i1" /\ param \notin Floats \cup {"ptr"}
  \/ Bytes[type] = Bytes[param] /\ (type = "ptr" <=> param = "ptr")

(* The values of a field for an id, a uint16_t; the mutant has char.       *)
FieldValuesChar == 256

FieldValues == 65536

Field(id) == id % FieldValues

(* fillAccessLog, as the function calls it, and fillAllocLog.              *)
AccessEntry(function, file) ==
  [value_type |-> ValueType[function], member |-> Parameter[function],
   file |-> Field(file)]

AllocEntry(given, file) == [size |-> given[1], num |-> given[2], file |-> Field(file)]

(* A reader of the trace takes the member value_type tells it to.          *)
MemberOf ==
  [I8 |-> "i8", I16 |-> "i16", I32 |-> "i32", I64 |-> "i64", F64 |-> "double",
   PTR |-> "ptr"]

=============================================================================
