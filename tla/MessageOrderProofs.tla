------------------------- MODULE MessageOrderProofs -------------------------
(***************************************************************************)
(* message_compare is a strict total order on the messages about one key,  *)
(* in either of its two forms: the lemmas the proofs about the stores use. *)
(***************************************************************************)
EXTENDS MessageOrder, TLAPS

\* message_compare answers -1, 0 or 1, and 0 only for a message and itself: a
\* "duplicate" answer is never given to a different message.
LEMMA CompareRange ==
    ASSUME NEW m \in Messages, NEW n \in Messages
    PROVE  /\ message_compare(m, n) \in {-1, 0, 1}
           /\ message_compare(m, n) = 0 <=> m = n
BY MessagesAssumption, HashAssumption
   DEF message_compare, cast_message_compare, default_message_compare, type_compare,
       bytes_compare, is_add_type, is_remove_type

\* message_compare is antisymmetric.
LEMMA CompareAntisymmetric ==
    ASSUME NEW m \in Messages, NEW n \in Messages, m.key = n.key
    PROVE  message_compare(m, n) > 0 <=> message_compare(n, m) < 0
BY MessagesAssumption
   DEF message_compare, cast_message_compare, default_message_compare, type_compare,
       bytes_compare, is_add_type, is_remove_type

\* message_compare is transitive.
LEMMA CompareTransitive ==
    ASSUME NEW a \in Messages, NEW b \in Messages, NEW c \in Messages,
           a.key = b.key, b.key = c.key,
           message_compare(a, b) > 0, message_compare(b, c) > 0
    PROVE  message_compare(a, c) > 0
BY MessagesAssumption
   DEF message_compare, cast_message_compare, default_message_compare, type_compare,
       bytes_compare, is_add_type, is_remove_type
=============================================================================
