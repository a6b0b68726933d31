------------------------------ MODULE TlSchema ------------------------------
(***************************************************************************)
(* What the server puts on the wire, as the schema comments of             *)
(* core/tl_skip.c, domain/read/history.c and domain/read/dialogs.c record  *)
(* it: for each documented constructor the fields after its id.  With the  *)
(* reader of each type, and the wire of an object of it.                   *)
(*                                                                         *)
(* The wire is a sequence of cells: "w" one word, "F" and "F2" the two     *)
(* flags words, "s" a string or bytes, "peer" "w" "w" a Peer, "vec" and a  *)
(* count the head of a vector, and the name of a type an object of it.     *)
(* A field is <<condition, cells, repeated>>: the flag bit it depends on   *)
(* (32 + b for flags2, Always for none), the cells, and whether it is a    *)
(* vector of them.                                                         *)
(***************************************************************************)
EXTENDS TlLayout, SequencesExt

Always == 64
A(cells) == <<Always, cells, FALSE>>
O(b, cells) == <<b, cells, FALSE>>
V(cells) == <<Always, cells, TRUE>>
OV(b, cells) == <<b, cells, TRUE>>

int == <<"w">>
long == <<"w", "w">>
double == <<"w", "w">>
string == <<"s">>
PeerCells == <<"peer", "w", "w">>
flags == A(<<"F">>)

DraftSchema ==
    "inputGeoPoint" :> <<flags, A(double), A(double), O(0, int)>>
    @@ "inputMediaPhoto" :> <<flags, A(<<"InputPhoto">>), O(0, int)>>
    @@ "inputMediaDocument" :>
         <<flags, A(<<"InputDocument">>), O(0, int), O(1, string)>>
    @@ "inputMediaGeoLive" :>
         <<flags, A(<<"InputGeoPoint">>), O(2, int), A(int), O(3, int)>>
    @@ "inputMediaWebPage" :> <<flags, A(string), O(4, string)>>
    @@ "inputMediaPoll" :>
         <<flags, A(<<"Poll">>), OV(0, string), O(1, string),
           OV(2, <<"MessageEntity">>)>>
    @@ Each({"inputMediaPhotoExternal", "inputMediaDocumentExternal"},
            <<flags, A(string), O(0, int)>>)
    @@ "inputReplyToMessage" :>
         <<flags, A(int), O(0, int), O(1, <<"InputPeer">>), O(2, string),
           OV(3, <<"MessageEntity">>), O(4, int)>>
    @@ "inputReplyToStory" :> <<A(<<"InputPeer">>), A(int)>>
    @@ "draftMessageEmpty" :> <<flags, O(0, int)>>
    @@ "draftMessage" :>
         <<flags, O(4, <<"InputReplyTo">>), A(string),
           OV(3, <<"MessageEntity">>), O(5, <<"InputMedia">>), A(int)>>
    @@ "peerNotifySettings" :>
         <<flags, O(0, int), O(1, int), O(2, int), O(3, <<"NotificationSound">>),
           O(4, <<"NotificationSound">>), O(5, <<"NotificationSound">>),
           O(6, int), O(7, int), O(8, <<"NotificationSound">>),
           O(9, <<"NotificationSound">>), O(10, <<"NotificationSound">>)>>
    @@ "dialog" :>
         <<flags, A(PeerCells), A(int), A(int), A(int), A(int), A(int), A(int),
           A(<<"PeerNotifySettings">>), O(0, int), O(1, <<"DraftMessage">>),
           O(4, int), O(5, int)>>

HeaderSchema ==
    "messageEntityBlockquote" :> <<flags, A(int), A(int)>>
    @@ "messagePeerReaction" :>
         <<flags, A(<<"Reaction">>), A(int), A(PeerCells)>>
    @@ "messageReactor" :> <<flags, O(3, PeerCells), A(int), A(int)>>
    @@ "messageReplies" :>
         <<flags, A(int), A(int), OV(1, PeerCells), O(0, long), O(2, int),
           O(3, int)>>
    @@ "factCheck" :>
         <<flags, O(1, string), O(1, <<"TextWithEntities">>), A(long)>>
    @@ "textWithEntities" :> <<A(string), V(<<"MessageEntity">>)>>
    @@ "messageFwdHeader" :>
         <<flags, O(0, PeerCells), O(5, string), A(int), O(2, int),
           O(3, string), O(4, PeerCells), O(4, int), O(8, PeerCells),
           O(9, string), O(10, int), O(6, string)>>
    @@ "messageReplyHeader" :>
         <<flags, O(4, int), O(0, PeerCells), O(5, <<"MessageFwdHeader">>),
           O(8, <<"MessageMedia">>), O(1, int), O(6, string),
           OV(7, <<"MessageEntity">>), O(10, int)>>
    @@ "actionPhoneCall" :> <<flags, A(long), O(0, int), O(1, int)>>
    @@ "actionGroupCall" :> <<flags, A(int), A(long), A(long), O(0, int)>>

MediaSchema ==
    "photoSizeEmpty" :> <<A(string)>>
    @@ "photoSize" :> <<A(string), A(int), A(int), A(int)>>
    @@ "photoCachedSize" :> <<A(string), A(int), A(int), A(string)>>
    @@ Each({"photoStrippedSize", "photoPathSize"}, <<A(string), A(string)>>)
    @@ "photoSizeProgressive" :> <<A(string), A(int), A(int), V(int)>>
    @@ "photoEmpty" :> <<A(long)>>
    @@ "photo" :>
         <<flags, A(long), A(long), A(string), A(int), V(<<"PhotoSize">>),
           OV(1, <<"VideoSize">>), A(int)>>
    @@ "documentEmpty" :> <<A(long)>>
    @@ "document" :>
         <<flags, A(long), A(long), A(string), A(int), A(string), A(long),
           OV(0, <<"PhotoSize">>), OV(1, <<"VideoSize">>), A(int),
           V(<<"DocumentAttribute">>)>>
    @@ "videoSize" :>
         <<flags, A(string), A(int), A(int), A(int), O(0, double)>>
    @@ "documentAttributeSticker" :>
         <<flags, A(string), A(<<"InputStickerSet">>), O(0, <<"MaskCoords">>)>>
    @@ "geoPoint" :> <<flags, A(double), A(double), A(long), O(0, int)>>
    @@ "game" :>
         <<flags, A(long), A(long), A(string), A(string), A(string),
           A(<<"Photo">>), O(0, <<"Document">>)>>
    @@ "messageExtendedMediaPreview" :>
         <<flags, O(0, int), O(0, int), O(1, <<"PhotoSize">>), O(2, int)>>
    @@ "messageExtendedMedia" :> <<A(<<"MessageMedia">>)>>
    @@ "webDocument" :>
         <<A(string), A(long), A(int), A(string), V(<<"DocumentAttribute">>)>>
    @@ "webDocumentNoProxy" :>
         <<A(string), A(int), A(string), V(<<"DocumentAttribute">>)>>
    @@ "storyFwdHeader" :>
         <<flags, O(0, PeerCells), O(1, string), O(2, int)>>
    @@ "mediaAreaCoordinates" :>
         <<flags, A(double), A(double), A(double), A(double), A(double),
           O(0, double)>>
    @@ "geoPointAddress" :>
         <<flags, A(string), O(0, string), O(1, string), O(2, string)>>
    @@ "storyViews" :>
         <<flags, A(int), O(2, int), OV(3, <<"ReactionCount">>), O(4, int),
           OV(0, long)>>
    @@ "storyItemDeleted" :> <<A(int)>>
    @@ "storyItemSkipped" :> <<flags, A(int), A(int), A(int)>>

PageSchema ==
    "pageTableCell" :> <<flags, O(7, <<"RichText">>), O(1, int), O(2, int)>>
    @@ "pageTableRow" :> <<V(<<"PageTableCell">>)>>
    @@ "pageRelatedArticle" :>
         <<flags, A(string), A(long), O(0, string), O(1, string), O(2, long),
           O(3, string), O(4, int)>>
    @@ "wallPaperSettings" :>
         <<flags, O(0, int), O(4, int), O(5, int), O(6, int), O(3, int),
           O(7, int), O(8, string)>>
    @@ "wallPaperNoFile" :>
         <<A(long), flags, O(2, <<"WallPaperSettings">>)>>
    @@ "themeSettings" :>
         <<flags, A(<<"BaseTheme">>), A(int), O(0, long), O(3, int),
           OV(1, int), O(2, <<"WallPaper">>)>>
    @@ "webPageAttributeTheme" :>
         <<flags, OV(0, <<"Document">>), O(1, <<"ThemeSettings">>)>>
    @@ "webPageAttributeStory" :>
         <<flags, A(PeerCells), A(int), O(0, <<"StoryItem">>)>>
    @@ "webPageAttributeStickerSet" :> <<flags, V(<<"Document">>)>>
    @@ "webPage" :>
         <<flags, A(long), A(string), A(string), A(int), O(0, string),
           O(1, string), O(2, string), O(3, string), O(4, <<"Photo">>),
           O(5, string), O(5, string), O(6, int), O(6, int), O(7, int),
           O(8, string), O(9, <<"Document">>), O(10, <<"Page">>),
           OV(12, <<"WebPageAttribute">>)>>

PeopleSchema ==
    "chatPhoto" :> <<flags, A(long), O(1, string), A(int)>>
    @@ "userProfilePhoto" :> <<flags, A(long), O(1, string), A(int)>>
    @@ "restrictionReason" :> <<A(string), A(string), A(string)>>
    @@ "username" :> <<flags, A(string)>>
    @@ "peerColor" :> <<flags, O(0, int), O(1, long)>>
    @@ "chatAdminRights" :> <<flags>>
    @@ "chatBannedRights" :> <<flags, A(int)>>
    @@ "chatEmpty" :> <<A(long)>>
    @@ "chatForbidden" :> <<A(long), A(string)>>
    @@ "userEmpty" :> <<A(long)>>
    @@ "messageEmpty" :> <<flags, A(int), O(0, PeerCells)>>

SchemaTable == DraftSchema @@ HeaderSchema @@ MediaSchema @@ PageSchema
               @@ PeopleSchema

\* The reader each type is walked by.
ReaderTable ==
    [NotificationSound |-> tl_skip_notification_sound,
     PeerNotifySettings |-> tl_skip_peer_notify_settings,
     InputPeer |-> skip_input_peer, InputGeoPoint |-> skip_input_geo_point,
     InputPhoto |-> skip_input_photo, InputDocument |-> skip_input_document,
     InputUser |-> skip_input_user, InputGame |-> skip_input_game,
     InputMedia |-> skip_input_media, InputReplyTo |-> skip_input_reply_to,
     DraftMessage |-> tl_skip_draft_message,
     MessageEntity |-> tl_skip_message_entity,
     InlineQueryPeerType |-> skip_inline_query_peer_type,
     KeyboardButton |-> skip_keyboard_button,
     KeyboardButtonRow |-> skip_keyboard_button_row,
     ReplyMarkup |-> tl_skip_reply_markup, Reaction |-> skip_reaction,
     ReactionCount |-> skip_reaction_count,
     MessagePeerReaction |-> skip_message_peer_reaction,
     MessageReactor |-> skip_message_reactor,
     MessageReactions |-> tl_skip_message_reactions,
     MessageReplies |-> tl_skip_message_replies,
     FactCheck |-> tl_skip_factcheck,
     MessageFwdHeader |-> tl_skip_message_fwd_header,
     MessageReplyHeader |-> tl_skip_message_reply_header,
     PhotoSize |-> tl_skip_photo_size, walk_photo_size |-> walk_photo_size,
     Photo |-> photo_full, InputStickerSet |-> skip_input_sticker_set,
     MaskCoords |-> skip_mask_coords, VideoSize |-> skip_video_size,
     DocumentAttribute |-> skip_document_attribute,
     Document |-> document_inner, GeoPoint |-> skip_geo_point,
     RichText |-> skip_rich_text, PageCaption |-> skip_page_caption,
     PageListItem |-> skip_page_list_item,
     PageListOrderedItem |-> skip_page_list_ordered_item,
     PageTableCell |-> skip_page_table_cell,
     PageTableRow |-> skip_page_table_row,
     PageRelatedArticle |-> skip_page_related_article,
     PageBlock |-> skip_page_block, Page |-> skip_page,
     WallPaperSettings |-> skip_wallpaper_settings,
     WallPaper |-> skip_wallpaper, ThemeSettings |-> skip_theme_settings,
     BaseTheme |-> skip_base_theme,
     WebPageAttribute |-> skip_webpage_attribute, WebPage |-> skip_webpage,
     TextWithEntities |-> skip_text_with_entities,
     PollAnswer |-> skip_poll_answer, Poll |-> skip_poll,
     PollAnswerVoters |-> skip_poll_answer_voters,
     PollResults |-> skip_poll_results, Game |-> skip_game,
     MessageExtendedMedia |-> skip_message_extended_media,
     WebDocument |-> skip_web_document,
     StoryFwdHeader |-> skip_story_fwd_header,
     MediaAreaCoordinates |-> skip_media_area_coordinates,
     GeoPointAddress |-> skip_geo_point_address, MediaArea |-> skip_media_area,
     PrivacyRule |-> skip_privacy_rule, StoryViews |-> skip_story_views,
     StoryItem |-> skip_story_item, MessageMedia |-> skip_message_media_body,
     ChatPhoto |-> tl_skip_chat_photo,
     UserProfilePhoto |-> tl_skip_user_profile_photo,
     UserStatus |-> tl_skip_user_status,
     RestrictionReason |-> tl_skip_restriction_reason,
     Username |-> tl_skip_username, PeerColor |-> tl_skip_peer_color,
     EmojiStatus |-> tl_skip_emoji_status,
     ChatAdminRights |-> skip_chat_admin_rights,
     ChatBannedRights |-> skip_chat_banned_rights,
     InputChannel |-> skip_input_channel, Chat |-> extract_chat_inner,
     User |-> extract_user_inner, MessageAction |-> skip_message_action,
     Message |-> tl_skip_message,
     parse_service_action |-> parse_service_action,
     history_parse_message |-> history_parse_message,
     search_parse_message |-> search_parse_message,
     updates_parse_message |-> updates_parse_message,
     dialog_entry |-> dialog_entry, parse_user |-> parse_user,
     parse_user_prefix |-> parse_user_prefix,
     parse_channel_prefix |-> parse_channel_prefix]

(***************************************************************************)
(* The wire of an object: the documented fields, or, where the repository  *)
(* documents none, what the skipper of the type reads.                     *)
(***************************************************************************)
ElementCells(r) == IF r = "String" THEN string
                   ELSE IF r = "Peer" THEN PeerCells ELSE <<TypeOf(r)>>

Ws(n) == [i \in 1..n |-> "w"]

StepField(b, st) ==
    CASE st[1] = "need" -> <<>>
      [] st[1] \in {"int", "raw"} -> <<<<b, Ws(st[2]), FALSE>>>>
      [] st[1] = "flags" -> <<<<b, <<"F">>, FALSE>>>>
      [] st[1] = "flags2" -> <<<<b, <<"F2">>, FALSE>>>>
      [] st[1] \in {"str", "bytes"} -> <<<<b, string, FALSE>>>>
      [] st[1] = "peer" -> <<<<b, PeerCells, FALSE>>>>
      [] st[1] = "obj" -> <<<<b, <<TypeOf(st[2])>>, FALSE>>>>
      [] st[1] = "vec" -> <<<<b, ElementCells(st[2]), TRUE>>>>
      [] st[1] = "words" -> <<<<b, Ws(st[2]), TRUE>>>>

StepFields(st) ==
    IF st[1] = "if"
    THEN FlattenSeq([i \in 1..Len(st[3]) |-> StepField(st[2], st[3][i])])
    ELSE StepField(Always, st)

Fields ==
    [t \in {TypeOf(r) : r \in DOMAIN ReaderTable} |->
       [c \in DOMAIN ReaderTable[t] \ {"unknown"} |->
          IF c \in DOMAIN SchemaTable THEN SchemaTable[c]
          ELSE FlattenSeq([i \in 1..Len(ReaderTable[t][c]) |->
                             StepFields(ReaderTable[t][c][i])])]]

BitsOf(t, c) == IF c = "unknown" THEN {}
                ELSE {Fields[t][c][i][1] : i \in 1..Len(Fields[t][c])}
                       \ {Always}

CountCell(n) == IF n = 0 THEN "n0" ELSE IF n = 1 THEN "n1" ELSE "n2"

FieldCells(f, fl, n) ==
    IF f[1] # Always /\ f[1] \notin fl THEN <<>>
    ELSE IF ~f[3] THEN f[2]
    ELSE <<"vec", CountCell(n)>> \o FlattenSeq([i \in 1..n |-> f[2]])

\* An unknown constructor has a payload nobody can size.
WireOf(t, c, fl, n) ==
    <<"crc">> \o
    IF c = "unknown" THEN Ws(2)
    ELSE FlattenSeq([i \in 1..Len(Fields[t][c]) |->
                       FieldCells(Fields[t][c][i], fl, n)])
=============================================================================
