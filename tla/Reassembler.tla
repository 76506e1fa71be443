----------------------------- MODULE Reassembler -----------------------------
(***************************************************************************)
(* The parts of long messages (pkg/smscodec/reassembler.go).  A part is     *)
(* <<text, seq, total, key>>, its key the sender and the reference that     *)
(* the sender gave the text; total 1 stands for a message that is not long. *)
(* The cache holds the parts that came so far, by key, in order of arrival. *)
(***************************************************************************)
EXTENDS Naturals, Sequences, SequencesExt

Text(p) == p[1]
Number(p) == p[2]
Total(p) == p[3]
Key(p) == p[4]

\* The parts of a text.
PartsOf(text, total, key) == [i \in 1..total |-> <<text, i, total, key>>]

\* Mutant: a part that came before counts again.
KnownNever(fragments, p) == FALSE
Known(fragments, p) == \E i \in DOMAIN fragments : Number(fragments[i]) = Number(p)

\* Add, first result: the text is complete with this part.
Completes(cache, p) ==
  \/ Total(p) = 1
  \/ ~Known(cache[Key(p)], p) /\ Len(cache[Key(p)]) + 1 = Total(p)

\* The parts in the order of their numbers.
Sorted(parts) ==
  LET order == CHOOSE f \in Bijection(DOMAIN parts, DOMAIN parts) :
                 \A i, j \in DOMAIN parts :
                   i < j => Number(parts[f[i]]) <= Number(parts[f[j]])
  IN  [i \in DOMAIN parts |-> parts[order[i]]]

\* Add, second result.
Full(cache, p) == IF Total(p) = 1 THEN <<p>> ELSE Sorted(Append(cache[Key(p)], p))

\* Add: what it leaves behind.
Added(cache, p) ==
  CASE Total(p) = 1 -> cache
    [] Total(p) > 1 /\ Known(cache[Key(p)], p) -> cache
    [] Total(p) > 1 /\ Completes(cache, p) -> [cache EXCEPT ![Key(p)] = <<>>]
    [] OTHER -> [cache EXCEPT ![Key(p)] = Append(@, p)]

\* Cleanup drops the keys that nothing was added to for a while.
Cleaned(cache, old) == [k \in DOMAIN cache |-> IF k \in old THEN <<>> ELSE cache[k]]

\* A text handed over: all parts of one text, in order.
WholeText(parts) ==
  parts = PartsOf(Text(parts[1]), Total(parts[1]), Key(parts[1]))
=============================================================================
