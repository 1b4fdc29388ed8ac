---------------------------- MODULE LinkedLists -----------------------------
(***************************************************************************)
(* The linked lists of the kernel module and of the helper, as sequences:  *)
(* list_add_tail is Append, list_del takes an entry out.                   *)
(***************************************************************************)
EXTENDS Integers, Sequences, Functions

\* list_del of the i-th entry.
DelAt(s, i) == SubSeq(s, 1, i - 1) \o SubSeq(s, i + 1, Len(s))

\* list_del of the entry e, which is in the list once.
list_del(s, e) == DelAt(s, CHOOSE i \in DOMAIN s : s[i] = e)

=============================================================================
