------------------------------- MODULE TlSteps ------------------------------
(***************************************************************************)
(* The notation of the readers: the steps their code takes over an object. *)
(*                                                                         *)
(* A reader is a table from constructors to the steps its code takes after *)
(* the constructor id, in the code's order.  One word is four bytes.       *)
(*   Need(n)    "len - pos < 4n" answered with -1, nothing read            *)
(*   Get(n)     the same guard followed by a read of exactly n words       *)
(*   Raw(n)     a read of n words with no guard of its own                 *)
(*   Flg, Flg2  a Raw(1) kept as flags / flags2                            *)
(*   Str        tl_skip_string, or tl_read_string with NULL answered by -1 *)
(*   Bytes      tl_read_string / tl_read_bytes whose NULL goes unnoticed   *)
(*   Obj(r)     a call of reader r, its -1 passed on                       *)
(*   Peer       tl_skip_peer, or its inline copy in updates.c              *)
(*   Vec(r)     guard of two words, TL_vector, count, count calls of r     *)
(*   Words(k)   the same for a vector of k-word scalars, guarded as whole  *)
(*   If(b, s), If2(b, s)   the steps s when bit b of flags / flags2 is set *)
(***************************************************************************)
EXTENDS Naturals, Sequences

Need(n) == <<"need", n>>
Get(n) == <<"int", n>>
Raw(n) == <<"raw", n>>
Flg == <<"flags", 0>>
Flg2 == <<"flags2", 0>>
Str == <<"str", 0>>
Bytes == <<"bytes", 0>>
Obj(r) == <<"obj", r>>
Peer == <<"peer", 0>>
Vec(r) == <<"vec", r>>
Words(k) == <<"words", k>>
If(b, s) == <<"if", b, s>>
If2(b, s) == <<"if", 32 + b, s>>

\* The type a parser of domain/read, or the size walk, shares with a skipper.
TwinOf == [walk_photo_size |-> "PhotoSize",
           parse_service_action |-> "MessageAction",
           history_parse_message |-> "Message",
           search_parse_message |-> "Message",
           updates_parse_message |-> "Message",
           parse_user |-> "User", parse_user_prefix |-> "User",
           parse_channel_prefix |-> "Chat"]

TypeOf(r) == IF r \in DOMAIN TwinOf THEN TwinOf[r] ELSE r
=============================================================================
