-------------------------------- MODULE Pricing --------------------------------
(***************************************************************************)
(* The price of a model (telemetry.py, config/pricing.json): the row whose  *)
(* name is the model's id, else the longest row whose name is part of the   *)
(* id and is not continued there by a version number.                       *)
(*                                                                         *)
(* A name is the sequence of its characters.  A run of letters in which no  *)
(* row begins or ends may stand as one symbol: <<gpt, -, 4, o>>.  All the   *)
(* code asks of a character is whether it is a digit or a separator.        *)
(***************************************************************************)
EXTENDS Integers, Sequences, FiniteSets

CONSTANTS
    Digit,       \* characters for which isdigit() holds
    Separator    \* "-", "." and "_"

\* No row: the model is unpriced.
None == <<>>

\* Where a row's name may begin in the model's id.
Occurrences(model, key) ==
    {at \in 1..(1 + Len(model) - Len(key)) :
        SubSeq(model, at, at + Len(key) - 1) = key}

\* model.find(key): the first occurrence only.
FindAt(model, key) ==
    CHOOSE at \in Occurrences(model, key) :
        \A other \in Occurrences(model, key) : at <= other

\* (Mutant of IsVersionExtension: a longer version number is a match.)
NeverExtension(model, key, at) == FALSE

\* A number follows the k-th character of a name.
NumberFollows(name, k) ==
    \/ k + 1 <= Len(name) /\ name[k + 1] \in Digit
    \/ k + 2 <= Len(name) /\ name[k + 1] \in Separator /\ name[k + 2] \in Digit

\* _is_version_extension: only a row that ends with a digit can be continued.
IsVersionExtension(model, key, at) ==
    /\ key[Len(key)] \in Digit
    /\ NumberFollows(model, at + Len(key) - 1)

Matches(model, table) ==
    {key \in table :
        /\ Occurrences(model, key) # {}
        /\ ~IsVersionExtension(model, key, FindAt(model, key))}

\* _price_for: the row that prices the model.
PriceFor(model, table) ==
    IF model \in table THEN model
    ELSE IF Matches(model, table) = {} THEN None
    ELSE CHOOSE key \in Matches(model, table) :
            \A other \in Matches(model, table) : Len(other) <= Len(key)

\* (Mutant of CostKnown: a model without a price adds nothing.)
CostKnownPartial(models, table) == \E model \in models : PriceFor(model, table) # None

\* estimate_cost: no number without a call, or with a call nobody can price.
CostKnown(models, table) ==
    /\ models # {}
    /\ \A model \in models : PriceFor(model, table) # None
================================================================================
