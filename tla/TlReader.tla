------------------------------ MODULE TlReader ------------------------------
(***************************************************************************)
(* One object on the wire and the reader that walks it.  The object is of  *)
(* any constructor the reader knows, with chosen optional fields, possibly *)
(* cut short, possibly of an unknown constructor.  Nested objects are      *)
(* single cells that their own reader skips or refuses, except those of    *)
(* Followed, whose calls are frames of their own: they show the recursion  *)
(* through MessageMedia and what a service action does to its message.     *)
(* The tables of the readers and the objects they meet are parameters;     *)
(* TlSchema gives them for tg-cli.                                         *)
(***************************************************************************)
EXTENDS TlSteps, FiniteSets

CONSTANTS Readers,           \* the steps of each reader, by constructor
          Wire(_, _, _, _),  \* the cells of an object: type, constructor,
                             \* optional fields, length of its vectors
          Bits(_, _),          \* the optional fields of a constructor
          Walked,              \* the readers whose objects are generated
          MaxCount             \* the longest vector generated (a bound)

VARIABLES obj,      \* the object: [reader, con, fl, count, cut, pad]
          data,     \* the cells not yet read: data + pos .. data + len
          frames,   \* the calls in progress, innermost last
          rc,       \* "idle", "run", "ok" (0), "fail" (-1), "lost"
          why,      \* what justifies a -1, and "clamped"
          depth     \* recursion_depth of tl_skip_message_media_ex

vars == <<obj, data, frames, rc, why, depth>>

Known(t) == DOMAIN Readers[t] \ {"unknown"}

\* The words a reader asks for before it reads the constructor id.
HeadWords(r) ==
    IF r = "ChatBannedRights" THEN 3
    ELSE IF r \in {"PeerNotifySettings", "MessageFwdHeader", "Username",
                   "PeerColor", "ChatAdminRights"} THEN 2
    ELSE 1

(***************************************************************************)
(* The objects generated.  Every optional field alone, in pairs, none, and *)
(* all but one or all together; cuts at every cell of the first kinds.     *)
(***************************************************************************)
FlagSets(bits) ==
    {{}, bits} \cup {{b} : b \in bits} \cup {bits \ {b} : b \in bits}
    \cup {{a, b} : a, b \in bits}

Cuttable(bits) == {{}, bits} \cup {{b} : b \in bits}

NoObj == [reader |-> "none", con |-> "none", fl |-> {}, count |-> 0,
          cut |-> 0, pad |-> FALSE]

\* The calls into other readers that are followed rather than taken whole,
\* on uncut objects with none or all of their optional fields.
MediaChain == {"MessageMedia", "StoryItem", "WebPage", "WebPageAttribute",
               "MessageExtendedMedia"}

Followed ==
    IF obj.cut # 0 \/ obj.pad \/ obj.count # 1
       \/ obj.fl \notin {{}, Bits(TypeOf(obj.reader), obj.con)}
    THEN {}
    ELSE CASE obj.reader = "MessageMedia" -> MediaChain
           [] obj.reader \in {"history_parse_message", "search_parse_message",
                              "updates_parse_message"} ->
                {"parse_service_action"}
           [] OTHER -> {}

\* The constructors a followed call meets: every action, and of the media
\* types those that nest further, a leaf of each, and an unknown one.
NestedCons(r) ==
    IF r = "parse_service_action" THEN DOMAIN Readers[r]
    ELSE {"unknown"} \cup
         (DOMAIN Readers[r] \cap
           {"messageMediaEmpty", "messageMediaWebPage", "messageMediaInvoice",
            "messageMediaStory", "messageMediaPaidMedia", "storyItem",
            "storyItemDeleted", "webPage", "webPageAttributeStory",
            "webPageAttributeStickerSet", "messageExtendedMedia",
            "messageExtendedMediaPreview"})

MEDIA_RECURSION_MAX == 4

\* The object cut after k cells; `pad` cuts the padding of a final string.
CutTo(full, k, pad) ==
    IF pad THEN [SubSeq(full, 1, k) EXCEPT ![k] = "unpadded"]
    ELSE SubSeq(full, 1, k)

Init ==
    /\ obj = NoObj /\ data = <<>> /\ frames = <<>>
    /\ rc = "idle" /\ why = {} /\ depth = 0

Top == frames[Len(frames)]

Refuse(reasons) ==
    /\ rc' = "fail" /\ why' = why \cup reasons
    /\ UNCHANGED <<obj, data, frames, depth>>

\* Entering reader r on an object of constructor c whose cells head `cells`.
\* tl_skip_message_media_ex counts its own activations.
tl_skip_message_media_ex(r, c, fl, cells, reasons) ==
    /\ data' = cells
    /\ IF r = "MessageMedia" /\ depth >= MEDIA_RECURSION_MAX
       THEN /\ rc' = "fail" /\ why' = reasons \cup {"depth"}
            /\ UNCHANGED <<frames, depth>>
       ELSE /\ frames' = Append(frames, [reader |-> r, fl |-> fl,
                                         todo |-> <<<<"enter", c>>>>])
            /\ depth' = IF r = "MessageMedia" THEN depth + 1 ELSE depth
            /\ rc' = "run" /\ why' = reasons

\* A top-level call of reader r on an object of its type, cut to k cells.
Begin(r, c, fl, n, k, pad) ==
    LET full == Wire(TypeOf(r), c, fl, n)
        whole == k = Len(full) /\ ~pad
    IN /\ pad => k > 0 /\ full[k] = "s"
       /\ ~whole => n <= 1 /\ fl \in Cuttable(Bits(TypeOf(r), c))
       /\ obj' = [reader |-> r, con |-> c, fl |-> fl, count |-> n,
                  cut |-> Len(full) - k, pad |-> pad]
       /\ tl_skip_message_media_ex(r, c, fl, CutTo(full, k, pad),
                                   IF whole THEN {} ELSE {"cut"})

Continue(todo) == frames' = [frames EXCEPT ![Len(frames)].todo = todo]
Rest == Tail(Top.todo)

\* The constructor id, after the reader's first guard.
Enter ==
    /\ rc = "run" /\ Top.todo # <<>> /\ Top.todo[1][1] = "enter"
    /\ LET c == Top.todo[1][2]
       IN IF Len(data) < HeadWords(Top.reader) THEN Refuse({})
          ELSE IF c \notin DOMAIN Readers[Top.reader] THEN Refuse({"unknown"})
          ELSE /\ data' = Tail(data) /\ Continue(Readers[Top.reader][c])
               /\ why' = IF c = "unknown" THEN why \cup {"unread"} ELSE why
               /\ UNCHANGED <<obj, rc, depth>>

\* tl_read_bytes adds the padding it never checked: the cursor stands past
\* the end, "len - pos" wraps around, and the guards after it let through.
Over == data = <<"over">>
Short(n) == ~Over /\ Len(data) < n
AtEnd == data = <<>> \/ Over

WordCells == {"w", "F", "F2", "peer", "crc"}

\* Move the cursor over the first n cells if they are what the step expects.
Take(n, expected, todo) ==
    IF expected
    THEN /\ data' = SubSeq(data, n + 1, Len(data)) /\ Continue(todo)
         /\ UNCHANGED <<obj, rc, why, depth>>
    ELSE /\ rc' = "lost" /\ UNCHANGED <<obj, data, frames, why, depth>>

AllWords(n) == \A i \in 1..n : data[i] \in WordCells

\* tl_serial.c: a read past the end moves pos to len and answers zeros.
Clamp(todo) ==
    /\ data' = <<>> /\ Continue(todo) /\ why' = why \cup {"clamped"}
    /\ UNCHANGED <<obj, rc, depth>>

Next1 == Top.todo[1]
Doing(kinds) == rc = "run" /\ Top.todo # <<>> /\ Next1[1] \in kinds

Guard ==
    /\ Doing({"need"})
    /\ IF Short(Next1[2]) THEN Refuse({})
       ELSE Continue(Rest) /\ UNCHANGED <<obj, data, rc, why, depth>>

ReadWords ==
    /\ Doing({"int", "raw"})
    /\ LET n == Next1[2]
       IN IF Over THEN IF n = 0 THEN Take(0, TRUE, Rest) ELSE Clamp(Rest)
          ELSE IF Len(data) >= n THEN Take(n, AllWords(n), Rest)
          ELSE IF Next1[1] = "int" THEN Refuse({}) ELSE Clamp(Rest)

\* Flags read past the end are 0: none of their optional fields follows.
ReadFlags ==
    /\ Doing({"flags", "flags2"})
    /\ IF AtEnd
       THEN /\ frames' = [frames EXCEPT ![Len(frames)].todo = Rest,
                    ![Len(frames)].fl = IF Next1[1] = "flags"
                                        THEN @ \cap (32..63) ELSE @ \cap (0..31)]
            /\ data' = <<>> /\ why' = why \cup {"clamped"}
            /\ UNCHANGED <<obj, rc, depth>>
       ELSE Take(1, data[1] = IF Next1[1] = "flags" THEN "F" ELSE "F2", Rest)

ReadString ==
    /\ Doing({"str", "bytes"})
    /\ IF data = <<"unpadded">>
       THEN /\ data' = <<"over">> /\ Continue(Rest)
            /\ UNCHANGED <<obj, rc, why, depth>>
       ELSE IF ~AtEnd THEN Take(1, data[1] = "s", Rest)
       ELSE IF Next1[1] = "str" THEN Refuse({}) ELSE Clamp(Rest)

ReadPeer ==
    /\ Doing({"peer"})
    /\ IF Len(data) < 3 \/ data[1] # "peer" THEN Refuse({}) ELSE Take(3, TRUE, Rest)

Branch ==
    /\ Doing({"if"})
    /\ Continue((IF Next1[2] \in Top.fl THEN Next1[3] ELSE <<>>) \o Rest)
    /\ UNCHANGED <<obj, data, rc, why, depth>>

CountOf(cell) == IF cell = "n0" THEN 0 ELSE IF cell = "n1" THEN 1 ELSE 2
ElementStep(r) == IF r = "String" THEN Str
                  ELSE IF r = "Peer" THEN Peer ELSE Obj(r)

ReadVector ==
    /\ Doing({"vec", "words"})
    /\ IF Len(data) < 2 \/ data[1] # "vec" THEN Refuse({})
       ELSE LET n == CountOf(data[2])
                body == IF Next1[1] = "words" THEN <<Get(n * Next1[2])>>
                        ELSE [i \in 1..n |-> ElementStep(Next1[2])]
            IN Take(2, TRUE, body \o Rest)

\* A nested object taken whole: its reader skips it, or answers -1 for a
\* reason of its own.
SkipNested ==
    /\ Doing({"obj"}) /\ Next1[2] \notin Followed
    /\ IF AtEnd THEN Refuse({})
       ELSE \/ Take(1, data[1] = TypeOf(Next1[2]), Rest)
            \/ data[1] = TypeOf(Next1[2]) /\ Refuse({"nested"})

\* A nested object whose reader is followed; its call is a new frame on the
\* caller's remaining steps.
CallNested(c, all) ==
    /\ Doing({"obj"}) /\ Next1[2] \in Followed
    /\ LET r == Next1[2]
           fl == IF all THEN Bits(TypeOf(r), c) ELSE {}
       IN IF data = <<>> THEN Refuse({})
          ELSE IF data[1] # TypeOf(r) THEN Take(1, FALSE, Rest)
          ELSE /\ tl_skip_message_media_ex(r, c, fl,
                     Wire(TypeOf(r), c, fl, 1) \o Tail(data), why)
               /\ UNCHANGED obj

\* Mutant: an error path leaves before recursion_depth--.
MutantReturn ==
    /\ frames # <<>> /\ (rc = "fail" \/ (rc = "run" /\ Top.todo = <<>>))
    /\ depth' = IF Top.reader = "MessageMedia" /\ rc = "run"
                THEN depth - 1 ELSE depth
    /\ frames' = IF Len(frames) = 1 THEN <<>>
                 ELSE LET outer == SubSeq(frames, 1, Len(frames) - 1)
                      IN [outer EXCEPT ![Len(outer)].todo = Tail(@)]
    /\ rc' = IF rc = "run" /\ Len(frames) = 1 THEN "ok" ELSE rc
    /\ UNCHANGED <<obj, data, why>>

\* The innermost call returns, with 0 after its last step or with -1.
Return ==
    /\ frames # <<>> /\ (rc = "fail" \/ (rc = "run" /\ Top.todo = <<>>))
    /\ depth' = IF Top.reader = "MessageMedia" THEN depth - 1 ELSE depth
    /\ frames' = IF Len(frames) = 1 THEN <<>>
                 ELSE LET outer == SubSeq(frames, 1, Len(frames) - 1)
                      IN [outer EXCEPT ![Len(outer)].todo = Tail(@)]
    /\ rc' = IF rc = "run" /\ Len(frames) = 1 THEN "ok" ELSE rc
    /\ UNCHANGED <<obj, data, why>>

Next ==
    \/ /\ rc = "idle"
       /\ \E r \in Walked : \E c \in Known(TypeOf(r)) \cup {"unknown"} :
            \E fl \in FlagSets(Bits(TypeOf(r), c)), n \in 0..MaxCount :
              \E k \in 0..Len(Wire(TypeOf(r), c, fl, n)), pad \in BOOLEAN :
                Begin(r, c, fl, n, k, pad)
    \/ Enter \/ Guard \/ ReadWords \/ ReadFlags \/ ReadString \/ ReadPeer
    \/ Branch \/ ReadVector \/ SkipNested
    \/ (Doing({"obj"}) /\ \E c \in NestedCons(Next1[2]), all \in BOOLEAN :
                             CallNested(c, all))
    \/ Return

Spec == Init /\ [][Next]_vars

Returned == rc \in {"ok", "fail"} /\ frames = <<>>
-----------------------------------------------------------------------------
PrefixReaders == {"parse_user", "parse_user_prefix", "parse_channel_prefix"}
Parsers == {"history_parse_message", "search_parse_message",
            "updates_parse_message", "parse_service_action", "dialog_entry"}
Skippers == DOMAIN Readers \ (PrefixReaders \cup Parsers)

\* A skipper of core/tl_skip.c that answers 0 has consumed its object to the
\* last word and nothing beyond it, and read nothing past the end of the
\* answer: the next element of the vector starts at the cursor.  An answer
\* that ends inside the padding of a string is set apart: no guard sees it.
SkipsExactly ==
    Returned /\ rc = "ok" /\ obj.reader \in Skippers
        => \/ data = <<>> /\ why \cap {"cut", "clamped"} = {}
           \/ obj.pad

\* A reader refuses only what it has to: an object cut short, a constructor
\* it does not know, a nested object refused, or media nested too deep.
\* Whatever optional fields are present, no well-formed object is refused.
RefusesOnlyForCause == rc = "fail" => why \ {"clamped", "unread"} # {}

\* No reader takes a field for something it is not: at every step the cell
\* under the cursor is of the kind the step reads, in the skippers, in the
\* parsers of domain/read and in the readers that stop after a prefix.
\* A service message of an unknown action, or with reactions, is set apart.
ServiceGap ==
    /\ obj.reader \in Parsers
    /\ \/ obj.con = "messageService" /\ 20 \in obj.fl
       \/ "unread" \in why

NeverMisreads == rc = "lost" => ServiceGap

\* The parsers of domain/read end where tl_skip_message ends, so that a
\* vector of messages stays aligned, for every message that is not a
\* service message.
ParsersAligned ==
    Returned /\ rc = "ok" /\ obj.reader \in Parsers /\ "cut" \notin why
        => data = <<>> \/ ServiceGap

\* Skippers and parsers alike leave the cursor at the end of their object,
\* which the loops over the vectors of an answer rely on.
Aligned == SkipsExactly /\ ParsersAligned

\* recursion_depth counts exactly the MessageMedia activations on the stack,
\* on success and on every error path, so that a refused message leaves the
\* static counter at zero for the next one.
DepthBalanced ==
    depth = Cardinality({i \in DOMAIN frames :
                           frames[i].reader = "MessageMedia"})
=============================================================================
