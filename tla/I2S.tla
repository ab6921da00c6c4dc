--------------------------------- MODULE I2S ---------------------------------
(***************************************************************************)
(* i2s of chapter2/hw4/i2s.go, which fills a Go value from decoded JSON.   *)
(* A Go type is a record of its kind, with the types of its fields, those  *)
(* of them that can be set, or the type of its elements.  The value of a   *)
(* struct is a function from field names, that of a slice a sequence (nil  *)
(* and empty slices are not told apart).  Decoded JSON is a record of its  *)
(* sort ("num", "str", "bool", "null", "list" or "map") and what it holds; *)
(* a number is given in halves.  Go visits the fields of a map in any order, *)
(* so that i2s is the set of its possible results: whether it returned an  *)
(* error, and what the value is then.                                      *)
(***************************************************************************)
EXTENDS Integers, Sequences

Done(out) == [err |-> FALSE, out |-> out]
InvalidType(out) == [err |-> TRUE, out |-> out]

(* int64 of a float64 drops the fraction.                                   *)
Truncate(halves) == IF halves >= 0 THEN halves \div 2 ELSE -((-halves) \div 2)

(* The zero value of a type: reflect.New.                                   *)
RECURSIVE ZeroOf(_)
ZeroOf(type) ==
  CASE type.kind = "struct" -> [f \in DOMAIN type.fields |-> ZeroOf(type.fields[f])]
    [] type.kind = "slice" -> <<>>
    [] type.kind = "int" -> 0
    [] type.kind = "bool" -> FALSE
    [] OTHER -> ""

(* What the scalar cases of a field take, and what they set.                *)
Sort(kind) == CASE kind = "int" -> "num" [] kind = "string" -> "str" [] kind = "bool" -> "bool"
Scalar(type, in) ==
  CASE type.kind = "int" -> Truncate(in.num)
    [] type.kind = "string" -> in.str
    [] type.kind = "bool" -> in.bool

RECURSIVE Convert(_, _, _), Fields(_, _, _, _), Elements(_, _, _, _)

(* A field of a struct: one that the type lacks, or that is not exported,   *)
(* is passed over; all but three kinds are left to i2s.                     *)
SetField(in, type, f, out) ==
  LET field == type.fields[f]
  IN IF f \notin DOMAIN type.fields \/ f \notin type.settable THEN {Done(out)}
     ELSE IF field.kind \in {"int", "string", "bool"}
     THEN IF in.sort = Sort(field.kind) THEN {Done([out EXCEPT ![f] = Scalar(field, in)])}
          ELSE {InvalidType(out)}
     ELSE {[r EXCEPT !.out = [out EXCEPT ![f] = r.out]] : r \in Convert(in, field, out[f])}

(* The range over the map, from the members in todo on.                     *)
Fields(todo, in, type, out) ==
  IF todo = {} THEN {Done(out)}
  ELSE UNION {UNION {IF r.err THEN {r} ELSE Fields(todo \ {f}, in, type, r.out) :
                       r \in SetField(in.members[f], type, f, out)} : f \in todo}

(* Mutant: one new value for all elements.                                  *)
ElementsReuse(idx, in, type, out) ==
  IF idx > Len(in.elems) THEN {Done(out)}
  ELSE UNION {IF r.err THEN {InvalidType(out)}
              ELSE Elements(idx + 1, in, type, Append(out, r.out)) :
                r \in Convert(in.elems[idx], type.elem,
                              IF out = <<>> THEN ZeroOf(type.elem) ELSE out[Len(out)])}

(* The loop over the slice, from idx on; elements are appended.             *)
Elements(idx, in, type, out) ==
  IF idx > Len(in.elems) THEN {Done(out)}
  ELSE UNION {IF r.err THEN {InvalidType(out)}
              ELSE Elements(idx + 1, in, type, Append(out, r.out)) :
                r \in Convert(in.elems[idx], type.elem, ZeroOf(type.elem))}

(* i2s with a pointer to a value out of the given type.                     *)
Convert(in, type, out) ==
  CASE in.sort = "map" /\ type.kind = "struct" -> Fields(DOMAIN in.members, in, type, out)
    [] in.sort = "list" /\ type.kind = "slice" -> Elements(1, in, type, out)
    [] OTHER -> {InvalidType(out)}

(* Nothing can be written if out is no pointer.                             *)
i2s(in, type, isPtr, out) == IF isPtr THEN Convert(in, type, out) ELSE {InvalidType(out)}

-----------------------------------------------------------------------------
(* The reference.  What fits a type: the members that a struct can take fit *)
(* its fields, the elements of a list those of a slice.  Numbers, strings   *)
(* and truth values fit as fields of a struct only.                         *)
RECURSIVE Fits(_, _)
Fits(in, type) ==
  \/ /\ in.sort = "map"
     /\ type.kind = "struct"
     /\ \A f \in DOMAIN in.members \cap DOMAIN type.fields \cap type.settable :
          \/ type.fields[f].kind \in {"int", "string", "bool"} /\ in.members[f].sort = Sort(type.fields[f].kind)
          \/ type.fields[f].kind \in {"struct", "slice"} /\ Fits(in.members[f], type.fields[f])
  \/ /\ in.sort = "list"
     /\ type.kind = "slice"
     /\ \A i \in DOMAIN in.elems : Fits(in.elems[i], type.elem)

(* The value made from what fits: field by field, elements added behind     *)
(* those that were there.                                                   *)
RECURSIVE Made(_, _, _)
Made(in, type, out) ==
  CASE type.kind = "struct" ->
         [f \in DOMAIN out |->
            IF f \in DOMAIN in.members \cap type.settable
            THEN Made(in.members[f], type.fields[f], out[f]) ELSE out[f]]
    [] type.kind = "slice" ->
         out \o [i \in DOMAIN in.elems |-> Made(in.elems[i], type.elem, ZeroOf(type.elem))]
    [] OTHER -> Scalar(type, in)

(* What no call may touch: fields that cannot be set or that no member      *)
(* names; and what was in a slice stays in front.                           *)
RECURSIVE Spared(_, _, _, _)
Spared(in, type, before, after) ==
  IF type.kind = "struct" /\ in.sort = "map"
  THEN \A f \in DOMAIN before :
           IF f \in DOMAIN in.members \cap type.settable
           THEN Spared(in.members[f], type.fields[f], before[f], after[f])
           ELSE after[f] = before[f]
  ELSE IF type.kind = "slice" /\ in.sort = "list"
  THEN Len(before) <= Len(after) /\ SubSeq(after, 1, Len(before)) = before
  ELSE type.kind \in {"struct", "slice"} => after = before

(* Whether a call fails, and what a successful one makes, does not depend   *)
(* on the order in which Go visits a map; a failed one may leave some of it *)
(* behind, but touches nothing else.                                        *)
Exact(in, type, isPtr, out) ==
  LET results == i2s(in, type, isPtr, out)
  IN IF isPtr /\ Fits(in, type) THEN results = {Done(Made(in, type, out))}
     ELSE \A r \in results : r.err /\ Spared(in, type, out, r.out)
=============================================================================
