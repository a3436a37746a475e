------------------------------- MODULE JsonData -------------------------------
(***************************************************************************)
(* The data of a record: how a PATCH is merged into it, and how it is      *)
(* compared with the expressions of the filters data_attr and data_attrs.  *)
(*                                                                         *)
(* A value is a record with its kind.  A text is what stands in a query: a *)
(* function Reads gives the kinds that it can be read as.                  *)
(***************************************************************************)
EXTENDS Integers, Sequences, SequencesExt

CONSTANTS
  Keys,       \* the keys of objects
  MaxDepth    \* how deep objects go in a patch (a bound)

ASSUME DepthAssumption == MaxDepth \in Nat \ {0}

Obj(at)      == [kind |-> "object", at |-> at]
Arr(items)   == [kind |-> "array", items |-> items]
Number(n)    == [kind |-> "number", n |-> n]
Str(text)    == [kind |-> "string", text |-> text]
Null         == [kind |-> "null"]
Missing      == [kind |-> "missing"]         \* no value: SQL's null
EmptyObject  == Obj(<<>>)

IsObj(v) == v.kind = "object"
Get(v, k) == IF IsObj(v) /\ k \in DOMAIN v.at THEN v.at[k] ELSE Missing

\* The value at a path: build_nested_dict and the lookups of JSONField both go by keys.
At(v, path) ==
  LET at[n \in 0..Len(path)] == IF n = 0 THEN v ELSE Get(at[n - 1], path[n])
  IN  at[Len(path)]

\* A value that JSON has, or none.
IsJson(v) ==
  CASE v.kind = "number" -> v.n \in Int /\ v = Number(v.n)
    [] v.kind = "string" -> v = Str(v.text)
    [] v.kind = "array"  -> v = Arr(v.items)
    [] v.kind = "object" -> v = Obj([k \in DOMAIN v.at |-> v.at[k]])
    [] OTHER             -> v \in {Null, Missing}

-----------------------------------------------------------------------------
(* Merging.  merged[path] is what becomes of the value at the path. *)

Places   == UNION {[1..n -> Keys] : n \in 0..MaxDepth}
Items(v) == IF IsObj(v) THEN v.at ELSE <<>>

\* What a request can name: objects have these keys and are less than MaxDepth deep.
IsPatch(v) ==
  \A path \in Places : LET x == At(v, path) IN
    IsObj(x) => /\ Len(path) < MaxDepth /\ DOMAIN x.at \subseteq Keys
                /\ \A k \in DOMAIN x.at : x.at[k].kind # "missing"

\* A fault, what RFC 7396 says: null removes.
RemovesNull(target, patch) ==
  LET merged[path \in Places] ==
        LET old == Items(At(target, path))
            new == At(patch, path)
            kept == {k \in DOMAIN old \cup DOMAIN new.at : k \notin DOMAIN new.at \/ new.at[k] # Null}
        IN  IF ~IsObj(new) THEN new
            ELSE Obj([k \in kept |-> IF k \in DOMAIN new.at THEN merged[Append(path, k)] ELSE old[k]])
  IN  merged[<<>>]

\* merge_patch calls itself for every key of an object in the patch.
MergePatch(target, patch) ==
  LET merged[path \in Places] ==
        LET old == Items(At(target, path))
            new == At(patch, path)
        IN  IF ~IsObj(new) THEN new
            ELSE Obj([k \in DOMAIN old \cup DOMAIN new.at |->
                        IF k \in DOMAIN new.at THEN merged[Append(path, k)] ELSE old[k]])
  IN  merged[<<>>]

\* What the patch says of a path.  It names a path at which, or above which, it has a value
\* that is not an object.
Names(patch, path) ==
  \E n \in 0..Len(path) :
    At(patch, SubSeq(path, 1, n)).kind \notin {"object", "missing"}

-----------------------------------------------------------------------------
(* Comparing. *)

\* string_to_value tries these in this order.
ReadOrder == <<"number", "date", "datetime", "time", "duration">>

\* What string_to_value makes of a text, as the value it is in the database: dates and
\* times become texts in ISO format.
StringToValue(text, Reads) ==
  LET kinds == SelectSeq(ReadOrder, LAMBDA k : k \in DOMAIN Reads[text])
  IN  IF kinds = <<>> THEN Str(text) ELSE Reads[text][Head(kinds)]

\* "nan" is read as a number too, and is no JSON: the database refuses it.
NotANumber == [kind |-> "nan"]

\* An expression key__operator__value; the value of "in" is split into several texts.
Expr(key, op, texts) == [key |-> key, op |-> op, texts |-> texts]

\* validate_data_attr_value_part: an order needs a number, a date or a time.
ExprValid(e, Reads) ==
  e.op \in {"exact", "icontains", "in"} \/ DOMAIN Reads[Head(e.texts)] # {}
ExprFails(e, Reads) ==
  e.op \notin {"icontains", "in"} /\ StringToValue(Head(e.texts), Reads) = NotANumber

\* The order of jsonb: by kind first.  Order[text] is the place of a text in the collation.
KindOrder == <<"null", "string", "number", "array", "object">>
Rank(v) == CHOOSE n \in DOMAIN KindOrder : KindOrder[n] = v.kind
Less(v, w, Order) ==
  \/ Rank(v) < Rank(w)
  \/ v.kind = "number" /\ w.kind = "number" /\ v.n < w.n
  \/ v.kind = "string" /\ w.kind = "string" /\ Order[v.text] < Order[w.text]

\* A fault: the text is compared as it is.
ComparesTexts(e, data, Reads, Order, Holds) ==
  LET v == At(data, e.key)
      w == Str(Head(e.texts))
  IN  v # Missing /\
      CASE e.op = "exact"     -> v = w
        [] e.op = "in"        -> \E t \in ToSet(e.texts) : v = Str(t)
        [] e.op = "icontains" -> \E t \in Holds[Head(e.texts)] : v \in {Str(t), StringToValue(t, Reads)}
        [] e.op = "gt"        -> Less(w, v, Order)
        [] e.op = "gte"       -> ~Less(v, w, Order)
        [] e.op = "lt"        -> Less(v, w, Order)
        [] e.op = "lte"       -> ~Less(w, v, Order)

\* filter_queryset_by_data_attr, for one expression and the data of one record.  Holds[t]
\* are the texts that contain t.  In a list every value is a text; equal are the text and
\* what it is read as.
Matches(e, data, Reads, Order, Holds) ==
  LET v == At(data, e.key)
      t == Head(e.texts)
      w == StringToValue(t, Reads)
  IN  v # Missing /\
      CASE e.op = "exact"     -> v \in {Str(t), w}
        [] e.op = "in"        -> \E x \in ToSet(e.texts) : v = Str(x)
        [] e.op = "icontains" -> \E x \in Holds[t] : v \in {Str(x), StringToValue(x, Reads)}
        [] e.op = "gt"        -> Less(w, v, Order)
        [] e.op = "gte"       -> ~Less(v, w, Order)
        [] e.op = "lt"        -> Less(v, w, Order)
        [] e.op = "lte"       -> ~Less(w, v, Order)
=============================================================================
