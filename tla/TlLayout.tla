------------------------------ MODULE TlLayout ------------------------------
(***************************************************************************)
(* The objects tg-cli reads from a server answer, and the readers that     *)
(* walk them: every skipper and extractor of core/tl_skip.c, and the       *)
(* message and user parsers of domain/read.                                *)
(***************************************************************************)
EXTENDS TlSteps, TLC

\* The vectors that have a function of their own, and the wrappers.
tl_skip_message_entities_vector == Vec("MessageEntity")
skip_inline_query_peer_type_vector == Vec("InlineQueryPeerType")
skip_button_row_vector == Vec("KeyboardButtonRow")
tl_skip_photo_size_vector == Vec("PhotoSize")
walk_photo_size_vector == Vec("walk_photo_size")
skip_video_size_vector == Vec("VideoSize")
skip_page_block_vector == Vec("PageBlock")
skip_webpage_attributes_vector == Vec("WebPageAttribute")
tl_skip_restriction_reason_vector == Vec("RestrictionReason")
tl_skip_username_vector == Vec("Username")
tl_skip_bool == Get(1)
tl_skip_photo == Obj("Photo")
tl_skip_document == Obj("Document")

\* Constructors that share a case of the switch.
Each(cs, steps) == [c \in cs |-> steps]

(***************************************************************************)
(* Notification settings and the Input* types that occur in drafts.        *)
(***************************************************************************)
tl_skip_notification_sound ==
    Each({"notificationSoundDefault", "notificationSoundNone"}, <<>>)
    @@ "notificationSoundRingtone" :> <<Get(2)>>
    @@ "notificationSoundLocal" :> <<Str, Str>>

tl_skip_peer_notify_settings ==
    Each({"peerNotifySettings", "peerNotifySettings2"},
         <<Flg, If(0, <<tl_skip_bool>>), If(1, <<tl_skip_bool>>), If(2, <<Get(1)>>),
           If(3, <<Obj("NotificationSound")>>),
           If(4, <<Obj("NotificationSound")>>),
           If(5, <<Obj("NotificationSound")>>),
           If(6, <<tl_skip_bool>>), If(7, <<tl_skip_bool>>),
           If(8, <<Obj("NotificationSound")>>),
           If(9, <<Obj("NotificationSound")>>),
           If(10, <<Obj("NotificationSound")>>)>>)

skip_input_peer ==
    Each({"inputPeerEmpty", "inputPeerSelf"}, <<>>)
    @@ Each({"inputPeerUser", "inputPeerChannel"}, <<Get(4)>>)
    @@ "inputPeerChat" :> <<Get(2)>>
    @@ Each({"inputPeerUserFromMessage", "inputPeerChannelFromMessage"},
            <<Obj("InputPeer"), Get(3)>>)

skip_input_geo_point ==
    "inputGeoPointEmpty" :> <<>>
    @@ "inputGeoPoint" :> <<Need(1), Flg, Get(4), If(0, <<Get(1)>>)>>

skip_input_photo ==
    "inputPhotoEmpty" :> <<Get(2)>> @@ "inputPhoto" :> <<Get(4), Str>>

skip_input_document ==
    "inputDocumentEmpty" :> <<Get(2)>> @@ "inputDocument" :> <<Get(4), Str>>

skip_input_user ==
    Each({"inputUserEmpty", "inputUserSelf"}, <<>>)
    @@ "inputUser" :> <<Get(4)>>
    @@ "inputUserFromMessage" :> <<Obj("InputPeer"), Get(3)>>

skip_input_game ==
    "inputGameID" :> <<Get(4)>>
    @@ "inputGameShortName" :> <<Obj("InputUser"), Str>>

skip_input_media ==
    "inputMediaEmpty" :> <<>>
    @@ "inputMediaPhoto" :>
         <<Need(1), Flg, Obj("InputPhoto"), If(0, <<Get(1)>>)>>
    @@ "inputMediaGeoPoint" :> <<Obj("InputGeoPoint")>>
    @@ "inputMediaContact" :> <<Str, Str, Str, Str>>
    @@ "inputMediaDocument" :>
         <<Need(1), Flg, Obj("InputDocument"), If(0, <<Get(1)>>),
           If(1, <<Str>>)>>
    @@ "inputMediaVenue" :> <<Obj("InputGeoPoint"), Str, Str, Str, Str, Str>>
    @@ "inputMediaGeoLive" :>
         <<Need(1), Flg, Obj("InputGeoPoint"), If(2, <<Get(1)>>), Get(1),
           If(3, <<Get(1)>>)>>
    @@ "inputMediaGame" :> <<Obj("InputGame")>>
    @@ "inputMediaDice" :> <<Str>>
    @@ "inputMediaStory" :> <<Obj("InputPeer"), Get(1)>>
    @@ "inputMediaWebPage" :> <<Need(1), Flg, Str, If(4, <<Str>>)>>
    @@ "inputMediaPoll" :>
         <<Need(1), Flg, Obj("Poll"), If(0, <<Vec("String")>>),
           If(1, <<Str>>), If(2, <<tl_skip_message_entities_vector>>)>>
    @@ "inputMediaPaidMedia" :> <<Get(2), Vec("InputMedia")>>
    @@ Each({"inputMediaPhotoExternal", "inputMediaDocumentExternal"},
            <<Need(1), Flg, Str, If(0, <<Get(1)>>)>>)

skip_input_reply_to ==
    "inputReplyToMessage" :>
       <<Need(2), Flg, Raw(1), If(0, <<Get(1)>>), If(1, <<Obj("InputPeer")>>),
         If(2, <<Str>>), If(3, <<tl_skip_message_entities_vector>>), If(4, <<Get(1)>>)>>
    @@ "inputReplyToStory" :> <<Obj("InputPeer"), Get(1)>>

tl_skip_draft_message ==
    "draftMessageEmpty" :> <<Need(1), Flg, If(0, <<Get(1)>>)>>
    @@ "draftMessage" :>
         <<Need(1), Flg, If(4, <<Obj("InputReplyTo")>>), Str,
           If(3, <<tl_skip_message_entities_vector>>), If(5, <<Obj("InputMedia")>>),
           Get(1)>>

(***************************************************************************)
(* Entities, keyboards, reactions and the headers of a message.            *)
(***************************************************************************)
tl_skip_message_entity ==
    Each({"Unknown", "Mention", "Hashtag", "BotCommand", "Url", "Email",
          "Bold", "Italic", "Code", "Phone", "Cashtag", "Underline",
          "Strike", "BankCard", "Spoiler"}, <<Get(2)>>)
    @@ Each({"messageEntityPre", "messageEntityTextUrl"}, <<Get(2), Str>>)
    @@ Each({"messageEntityMentionName", "messageEntityCustomEmoji"},
            <<Get(4)>>)
    @@ "messageEntityBlockquote" :> <<Need(3), Flg, Raw(2)>>

skip_inline_query_peer_type ==
    Each({"SameBotPM", "PM", "Chat", "Megagroup", "Broadcast", "BotPM"}, <<>>)

skip_keyboard_button ==
    Each({"keyboardButton", "RequestPhone", "RequestGeoLoc", "Game", "Buy"},
         <<Str>>)
    @@ Each({"keyboardButtonUrl", "keyboardButtonWebView",
             "keyboardButtonSimpleWebView"}, <<Str, Str>>)
    @@ "keyboardButtonCallback" :> <<Need(1), Flg, Str, Str>>
    @@ "keyboardButtonSwitchInline" :>
         <<Need(1), Flg, Str, Str, If(1, <<skip_inline_query_peer_type_vector>>)>>
    @@ "keyboardButtonUrlAuth" :>
         <<Need(1), Flg, Str, If(0, <<Str>>), Str, Get(1)>>
    @@ "keyboardButtonRequestPoll" :>
         <<Need(1), Flg, If(0, <<Get(1)>>), Str>>
    @@ "keyboardButtonUserProfile" :> <<Str, Get(2)>>

skip_keyboard_button_row == "keyboardButtonRow" :> <<Vec("KeyboardButton")>>

tl_skip_reply_markup ==
    "replyKeyboardHide" :> <<Need(1), Flg>>
    @@ "replyKeyboardForceReply" :> <<Need(1), Flg, If(3, <<Str>>)>>
    @@ "replyKeyboardMarkup" :>
         <<Need(1), Flg, skip_button_row_vector, If(3, <<Str>>)>>
    @@ "replyInlineMarkup" :> <<skip_button_row_vector>>

skip_reaction ==
    Each({"reactionEmpty", "reactionPaid"}, <<>>)
    @@ "reactionEmoji" :> <<Str>> @@ "reactionCustomEmoji" :> <<Get(2)>>

skip_reaction_count ==
    "reactionCount" :>
       <<Need(1), Flg, If(0, <<Get(1)>>), Obj("Reaction"), Get(1)>>

skip_message_peer_reaction ==
    "messagePeerReaction" :> <<Need(1), Flg, Obj("Reaction"), Get(1), Peer>>

skip_message_reactor ==
    "messageReactor" :> <<Need(1), Flg, If(3, <<Peer>>), Get(2)>>

tl_skip_message_reactions ==
    "messageReactions" :>
       <<Need(1), Flg, Vec("ReactionCount"),
         If(1, <<Vec("MessagePeerReaction")>>),
         If(2, <<Vec("MessageReactor")>>)>>

\* Mutant: read_max_id is read without its guard.
MutantRepliesUnguarded ==
    "messageReplies" :>
       <<Need(3), Flg, Raw(2), If(1, <<Vec("Peer")>>), If(0, <<Get(2)>>),
         If(2, <<Get(1)>>), If(3, <<Raw(1)>>)>>

tl_skip_message_replies ==
    "messageReplies" :>
       <<Need(3), Flg, Raw(2), If(1, <<Vec("Peer")>>), If(0, <<Get(2)>>),
         If(2, <<Get(1)>>), If(3, <<Get(1)>>)>>

tl_skip_factcheck ==
    "factCheck" :>
       <<Need(1), Flg, If(1, <<Str, Obj("TextWithEntities")>>), Get(2)>>

\* Mutant: psa_type is taken before saved_date.
MutantFwdOrder ==
    "messageFwdHeader" :>
       <<Flg, If(0, <<Peer>>), If(5, <<Str>>), Get(1), If(2, <<Get(1)>>),
         If(3, <<Str>>), If(4, <<Peer, Get(1)>>), If(8, <<Peer>>),
         If(9, <<Str>>), If(6, <<Str>>), If(10, <<Get(1)>>)>>

tl_skip_message_fwd_header ==
    "messageFwdHeader" :>
       <<Flg, If(0, <<Peer>>), If(5, <<Str>>), Get(1), If(2, <<Get(1)>>),
         If(3, <<Str>>), If(4, <<Peer, Get(1)>>), If(8, <<Peer>>),
         If(9, <<Str>>), If(10, <<Get(1)>>), If(6, <<Str>>)>>

tl_skip_message_reply_header ==
    "messageReplyStoryHeader" :> <<Peer, Get(1)>>
    @@ "messageReplyHeader" :>
         <<Need(1), Flg, If(4, <<Get(1)>>), If(0, <<Peer>>),
           If(5, <<Obj("MessageFwdHeader")>>), If(8, <<Obj("MessageMedia")>>),
           If(1, <<Get(1)>>), If(6, <<Str>>), If(7, <<tl_skip_message_entities_vector>>),
           If(10, <<Get(1)>>)>>

(***************************************************************************)
(* Photos, documents and places.                                           *)
(***************************************************************************)
tl_skip_photo_size ==
    "photoSizeEmpty" :> <<Str>>
    @@ "photoSize" :> <<Str, Get(3)>>
    @@ "photoCachedSize" :> <<Str, Get(2), Str>>
    @@ Each({"photoStrippedSize", "photoPathSize"}, <<Str, Str>>)
    @@ "photoSizeProgressive" :> <<Str, Get(2), Words(1)>>

\* walk_photo_size_vector reads the type string before it branches.
walk_photo_size ==
    "photoSizeEmpty" :> <<Str>>
    @@ "photoSize" :> <<Str, Get(3)>>
    @@ "photoCachedSize" :> <<Str, Get(2), Str>>
    @@ Each({"photoStrippedSize", "photoPathSize"}, <<Str, Str>>)
    @@ "photoSizeProgressive" :> <<Str, Get(2), Words(1)>>

photo_full ==
    "photoEmpty" :> <<Get(2)>>
    @@ "photo" :>
         <<Need(1), Flg, Get(4), Bytes, Get(1), walk_photo_size_vector,
           If(1, <<skip_video_size_vector>>), Get(1)>>

skip_input_sticker_set ==
    Each({"inputStickerSetEmpty", "AnimatedEmoji", "AnimatedEmojiAnimations",
          "PremiumGifts", "EmojiGenericAnimations", "EmojiDefaultStatuses",
          "EmojiDefaultTopicIcons", "EmojiChannelDefaultStatuses"}, <<>>)
    @@ "inputStickerSetID" :> <<Get(4)>>
    @@ Each({"inputStickerSetShortName", "inputStickerSetDice"}, <<Str>>)

skip_mask_coords == "maskCoords" :> <<Get(7)>>

skip_video_size ==
    "videoSize" :> <<Need(1), Flg, Str, Get(3), If(0, <<Get(2)>>)>>
    @@ "videoSizeEmojiMarkup" :> <<Get(2), Words(1)>>
    @@ "videoSizeStickerMarkup" :>
         <<Obj("InputStickerSet"), Get(2), Words(1)>>

skip_document_attribute ==
    "documentAttributeImageSize" :> <<Get(2)>>
    @@ Each({"documentAttributeAnimated", "documentAttributeHasStickers"},
            <<>>)
    @@ "documentAttributeFilename" :> <<Str>>
    @@ "documentAttributeVideo" :>
         <<Need(1), Flg, Get(4), If(2, <<Get(1)>>), If(4, <<Get(2)>>),
           If(5, <<Str>>)>>
    @@ "documentAttributeAudio" :>
         <<Need(2), Flg, Raw(1), If(0, <<Str>>), If(1, <<Str>>),
           If(2, <<Str>>)>>
    @@ "documentAttributeSticker" :>
         <<Need(1), Flg, Str, Obj("InputStickerSet"),
           If(0, <<Obj("MaskCoords")>>)>>
    @@ "documentAttributeCustomEmoji" :>
         <<Need(1), Flg, Str, Obj("InputStickerSet")>>

document_inner ==
    "documentEmpty" :> <<Get(2)>>
    @@ "document" :>
         <<Need(1), Flg, Get(4), Bytes, Get(1), Str, Get(2),
           If(0, <<tl_skip_photo_size_vector>>), If(1, <<skip_video_size_vector>>), Get(1),
           Vec("DocumentAttribute")>>

\* Mutant: the guard of geoPoint asks for one word too many.
MutantGeoGuard ==
    "geoPointEmpty" :> <<>>
    @@ "geoPoint" :> <<Need(8), Flg, Raw(6), If(0, <<Get(1)>>)>>

skip_geo_point ==
    "geoPointEmpty" :> <<>>
    @@ "geoPoint" :> <<Need(7), Flg, Raw(6), If(0, <<Get(1)>>)>>

(***************************************************************************)
(* Instant-view pages.                                                     *)
(***************************************************************************)
skip_rich_text ==
    "textEmpty" :> <<>> @@ "textPlain" :> <<Str>>
    @@ Each({"textBold", "textItalic", "textUnderline", "textStrike",
             "textFixed", "textSubscript", "textSuperscript", "textMarked"},
            <<Obj("RichText")>>)
    @@ "textUrl" :> <<Obj("RichText"), Str, Get(2)>>
    @@ Each({"textEmail", "textPhone", "textAnchor"}, <<Obj("RichText"), Str>>)
    @@ "textConcat" :> <<Vec("RichText")>> @@ "textImage" :> <<Get(4)>>

skip_page_caption == "pageCaption" :> <<Obj("RichText"), Obj("RichText")>>

skip_page_list_item ==
    "pageListItemText" :> <<Obj("RichText")>>
    @@ "pageListItemBlocks" :> <<skip_page_block_vector>>

skip_page_list_ordered_item ==
    "pageListOrderedItemText" :> <<Str, Obj("RichText")>>
    @@ "pageListOrderedItemBlocks" :> <<Str, skip_page_block_vector>>

skip_page_table_cell ==
    "pageTableCell" :>
       <<Need(1), Flg, If(7, <<Obj("RichText")>>), If(1, <<Get(1)>>),
         If(2, <<Get(1)>>)>>

skip_page_table_row == "pageTableRow" :> <<Vec("PageTableCell")>>

skip_page_related_article ==
    "pageRelatedArticle" :>
       <<Need(1), Flg, Str, Get(2), If(0, <<Str>>), If(1, <<Str>>),
         If(2, <<Get(2)>>), If(3, <<Str>>), If(4, <<Get(1)>>)>>

skip_page_block ==
    Each({"pageBlockUnsupported", "pageBlockDivider"}, <<>>)
    @@ Each({"pageBlockTitle", "pageBlockSubtitle", "pageBlockHeader",
             "pageBlockSubheader", "pageBlockKicker", "pageBlockParagraph",
             "pageBlockFooter"}, <<Obj("RichText")>>)
    @@ "pageBlockAnchor" :> <<Str>>
    @@ "pageBlockPreformatted" :> <<Obj("RichText"), Str>>
    @@ "pageBlockAuthorDate" :> <<Obj("RichText"), Get(1)>>
    @@ Each({"pageBlockBlockquote", "pageBlockPullquote"},
            <<Obj("RichText"), Obj("RichText")>>)
    @@ "pageBlockPhoto" :>
         <<Need(1), Flg, Get(2), Obj("PageCaption"), If(0, <<Str, Get(2)>>)>>
    @@ "pageBlockVideo" :> <<Get(3), Obj("PageCaption")>>
    @@ "pageBlockAudio" :> <<Get(2), Obj("PageCaption")>>
    @@ "pageBlockCover" :> <<Obj("PageBlock")>>
    @@ "pageBlockChannel" :> <<Obj("Chat")>>
    @@ "pageBlockMap" :> <<Obj("GeoPoint"), Get(3), Obj("PageCaption")>>
    @@ "pageBlockList" :> <<Vec("PageListItem")>>
    @@ "pageBlockOrderedList" :> <<Vec("PageListOrderedItem")>>
    @@ Each({"pageBlockCollage", "pageBlockSlideshow"},
            <<skip_page_block_vector, Obj("PageCaption")>>)
    @@ "pageBlockDetails" :> <<Need(1), Flg, skip_page_block_vector, Obj("RichText")>>
    @@ "pageBlockRelatedArticles" :>
         <<Obj("RichText"), Vec("PageRelatedArticle")>>
    @@ "pageBlockTable" :> <<Need(1), Flg, Obj("RichText"), Vec("PageTableRow")>>
    @@ "pageBlockEmbed" :>
         <<Need(1), Flg, If(1, <<Str>>), If(2, <<Str>>), If(4, <<Get(2)>>),
           If(5, <<Get(2)>>), Obj("PageCaption")>>
    @@ "pageBlockEmbedPost" :>
         <<Str, Get(4), Str, Get(1), skip_page_block_vector, Obj("PageCaption")>>

skip_page ==
    "page" :>
       <<Need(1), Flg, Str, skip_page_block_vector, Vec("Photo"), Vec("Document"),
         If(3, <<Get(1)>>)>>

(***************************************************************************)
(* Web pages, polls, games, stories and the other media.                   *)
(***************************************************************************)
skip_wallpaper_settings ==
    "wallPaperSettings" :>
       <<Need(1), Flg, If(0, <<Get(1)>>), If(4, <<Get(1)>>), If(5, <<Get(1)>>),
         If(6, <<Get(1)>>), If(3, <<Get(1)>>), If(7, <<Get(1)>>),
         If(8, <<Str>>)>>

skip_wallpaper ==
    "wallPaper" :>
       <<Get(4), Str, Str, Obj("WallPaperSettings"), Need(1), Flg,
         If(2, <<tl_skip_document>>)>>
    @@ "wallPaperNoFile" :>
         <<Need(3), Raw(2), Flg, If(2, <<Obj("WallPaperSettings")>>)>>

skip_theme_settings ==
    "themeSettings" :>
       <<Need(1), Flg, Obj("BaseTheme"), Get(1), If(0, <<Get(2)>>),
         If(3, <<Get(1)>>), If(1, <<Words(1)>>), If(2, <<Obj("WallPaper")>>)>>

skip_base_theme ==
    Each({"baseThemeClassic", "baseThemeDay", "baseThemeDark",
          "baseThemeTinted", "baseThemeArctic"}, <<>>)

skip_webpage_attribute ==
    "webPageAttributeTheme" :>
       <<Need(1), Flg, If(0, <<Vec("Document")>>),
         If(1, <<Obj("ThemeSettings")>>)>>
    @@ "webPageAttributeStory" :>
         <<Need(1), Flg, Peer, Get(1), If(0, <<Obj("StoryItem")>>)>>
    @@ "webPageAttributeStickerSet" :> <<Need(1), Flg, Vec("Document")>>

skip_webpage ==
    "webPageEmpty" :> <<Need(3), Flg, Raw(2), If(0, <<Str>>)>>
    @@ "webPagePending" :> <<Need(3), Flg, Raw(2), If(0, <<Str>>), Get(1)>>
    @@ "webPageNotModified" :> <<Need(1), Flg, If(0, <<Get(1)>>)>>
    @@ "webPage" :>
         <<Need(4), Flg, Raw(2), Str, Str, Get(1), If(0, <<Str>>),
           If(1, <<Str>>), If(2, <<Str>>), If(3, <<Str>>),
           If(4, <<Obj("Photo")>>), If(5, <<Str, Str>>), If(6, <<Get(2)>>),
           If(7, <<Get(1)>>), If(8, <<Str>>), If(9, <<tl_skip_document>>),
           If(10, <<Obj("Page")>>), If(12, <<skip_webpage_attributes_vector>>)>>

skip_text_with_entities ==
    "textWithEntities" :> <<Str, tl_skip_message_entities_vector>>

skip_poll_answer == "pollAnswer" :> <<Obj("TextWithEntities"), Str>>

skip_poll ==
    "poll" :>
       <<Need(3), Flg, Raw(2), Obj("TextWithEntities"), Vec("PollAnswer"),
         If(4, <<Get(1)>>), If(5, <<Get(1)>>)>>

skip_poll_answer_voters ==
    "pollAnswerVoters" :> <<Need(1), Flg, Str, Get(1)>>

skip_poll_results ==
    "pollResults" :>
       <<Need(1), Flg, If(1, <<Vec("PollAnswerVoters")>>), If(2, <<Get(1)>>),
         If(3, <<Vec("Peer")>>), If(4, <<Str, tl_skip_message_entities_vector>>)>>

skip_game ==
    "game" :>
       <<Need(5), Flg, Raw(4), Str, Str, Str, Obj("Photo"),
         If(0, <<tl_skip_document>>)>>

skip_message_extended_media ==
    "messageExtendedMediaPreview" :>
       <<Need(1), Flg, If(0, <<Get(2)>>), If(1, <<Obj("PhotoSize")>>),
         If(2, <<Get(1)>>)>>
    @@ "messageExtendedMedia" :> <<Obj("MessageMedia")>>

skip_web_document ==
    "webDocument" :> <<Str, Get(2), Get(1), Str, Vec("DocumentAttribute")>>
    @@ "webDocumentNoProxy" :> <<Str, Get(1), Str, Vec("DocumentAttribute")>>

skip_story_fwd_header ==
    "storyFwdHeader" :>
       <<Need(1), Flg, If(0, <<Peer>>), If(1, <<Str>>), If(2, <<Get(1)>>)>>

skip_media_area_coordinates ==
    "mediaAreaCoordinates" :> <<Need(11), Flg, Raw(10), If(0, <<Get(2)>>)>>

skip_geo_point_address ==
    "geoPointAddress" :>
       <<Need(1), Flg, Str, If(0, <<Str>>), If(1, <<Str>>), If(2, <<Str>>)>>

skip_media_area ==
    "mediaAreaVenue" :>
       <<Obj("MediaAreaCoordinates"), Obj("GeoPoint"), Str, Str, Str, Str, Str>>
    @@ "mediaAreaGeoPoint" :>
         <<Need(1), Flg, Obj("MediaAreaCoordinates"), Obj("GeoPoint"),
           If(0, <<Obj("GeoPointAddress")>>)>>
    @@ "mediaAreaSuggestedReaction" :>
         <<Need(1), Flg, Obj("MediaAreaCoordinates"), Obj("Reaction")>>
    @@ "mediaAreaChannelPost" :> <<Obj("MediaAreaCoordinates"), Get(3)>>
    @@ Each({"mediaAreaUrl", "mediaAreaStarGift"},
            <<Obj("MediaAreaCoordinates"), Str>>)
    @@ "mediaAreaWeather" :> <<Obj("MediaAreaCoordinates"), Str, Get(3)>>

skip_privacy_rule ==
    Each({"AllowContacts", "AllowAll", "AllowCloseFriends", "AllowPremium",
          "AllowBots", "DisallowContacts", "DisallowAll", "DisallowBots"},
         <<>>)
    @@ Each({"AllowUsers", "DisallowUsers", "AllowChatParticipants",
             "DisallowChatParticipants"}, <<Words(2)>>)

skip_story_views ==
    "storyViews" :>
       <<Need(1), Flg, Get(1), If(2, <<Get(1)>>), If(3, <<Vec("ReactionCount")>>),
         If(4, <<Get(1)>>), If(0, <<Words(2)>>)>>

skip_story_item ==
    "storyItemDeleted" :> <<Get(1)>>
    @@ "storyItemSkipped" :> <<Need(1), Flg, Get(3)>>
    @@ "storyItem" :>
         <<Need(1), Flg, Get(2), If(18, <<Peer>>),
           If(17, <<Obj("StoryFwdHeader")>>), Get(1), If(0, <<Str>>),
           If(1, <<tl_skip_message_entities_vector>>), Obj("MessageMedia"),
           If(14, <<Vec("MediaArea")>>), If(2, <<Vec("PrivacyRule")>>),
           If(3, <<Obj("StoryViews")>>), If(15, <<Obj("Reaction")>>)>>

skip_message_media_body ==
    Each({"messageMediaEmpty", "messageMediaUnsupported"}, <<>>)
    @@ "messageMediaGeo" :> <<Obj("GeoPoint")>>
    @@ "messageMediaContact" :> <<Str, Str, Str, Str, Get(2)>>
    @@ "messageMediaVenue" :> <<Obj("GeoPoint"), Str, Str, Str, Str, Str>>
    @@ "messageMediaGeoLive" :>
         <<Need(1), Flg, Obj("GeoPoint"), If(0, <<Get(1)>>), Get(1),
           If(1, <<Get(1)>>)>>
    @@ "messageMediaDice" :> <<Get(1), Str>>
    @@ "messageMediaPhoto" :>
         <<Need(1), Flg, If(0, <<Obj("Photo")>>), If(2, <<Get(1)>>)>>
    @@ "messageMediaDocument" :>
         <<Need(1), Flg, If(0, <<Obj("Document")>>), If(2, <<Get(1)>>),
           If(10, <<Vec("Document")>>)>>
    @@ "messageMediaWebPage" :> <<Need(1), Flg, Obj("WebPage")>>
    @@ "messageMediaPoll" :> <<Obj("Poll"), Obj("PollResults")>>
    @@ "messageMediaInvoice" :>
         <<Need(1), Flg, Str, Str, If(0, <<Obj("WebDocument")>>),
           If(2, <<Get(1)>>), Str, Get(2), Str,
           If(4, <<Obj("MessageExtendedMedia")>>)>>
    @@ "messageMediaStory" :>
         <<Need(1), Flg, Peer, Get(1), If(0, <<Obj("StoryItem")>>)>>
    @@ "messageMediaGiveaway" :>
         <<Need(1), Flg, Words(2), If(1, <<Vec("String")>>), If(3, <<Str>>),
           Get(1), If(4, <<Get(1)>>), If(5, <<Get(2)>>), Get(1)>>
    @@ "messageMediaGame" :> <<Obj("Game")>>
    @@ "messageMediaPaidMedia" :> <<Get(2), Vec("MessageExtendedMedia")>>

(***************************************************************************)
(* Chats and users.                                                        *)
(***************************************************************************)
tl_skip_chat_photo ==
    "chatPhotoEmpty" :> <<>>
    @@ "chatPhoto" :> <<Need(1), Flg, Get(2), If(1, <<Str>>), Get(1)>>

tl_skip_user_profile_photo ==
    "userProfilePhotoEmpty" :> <<>>
    @@ "userProfilePhoto" :> <<Need(1), Flg, Get(2), If(1, <<Str>>), Get(1)>>

tl_skip_user_status ==
    "userStatusEmpty" :> <<>>
    @@ Each({"userStatusOnline", "userStatusOffline", "userStatusRecently",
             "userStatusLastWeek", "userStatusLastMonth"}, <<Get(1)>>)

tl_skip_restriction_reason == "restrictionReason" :> <<Str, Str, Str>>

tl_skip_username == "username" :> <<Flg, Str>>

tl_skip_peer_color ==
    "peerColor" :> <<Flg, If(0, <<Get(1)>>), If(1, <<Get(2)>>)>>

tl_skip_emoji_status ==
    "emojiStatusEmpty" :> <<>> @@ "emojiStatus" :> <<Get(2)>>
    @@ "emojiStatusUntil" :> <<Get(3)>>

skip_chat_admin_rights == "chatAdminRights" :> <<Flg>>

skip_chat_banned_rights == "chatBannedRights" :> <<Flg, Raw(1)>>

skip_input_channel ==
    "inputChannelEmpty" :> <<>>
    @@ Each({"inputChannel", "inputChannelFromMessage"}, <<Get(4)>>)

extract_chat_inner ==
    "chatEmpty" :> <<Get(2)>>
    @@ "chatForbidden" :> <<Get(2), Str>>
    @@ "chat" :>
         <<Need(1), Flg, If(6, <<Obj("InputChannel")>>), Get(2), Str,
           Obj("ChatPhoto"), Get(3), If(14, <<Obj("ChatAdminRights")>>),
           If(18, <<Obj("ChatBannedRights")>>)>>
    @@ "channelForbidden" :>
         <<Need(1), Flg, Get(4), Str, If(16, <<Get(1)>>)>>
    @@ "channel" :>
         <<Need(2), Flg, Flg2, Get(2), If(13, <<Get(2)>>), Str, If(6, <<Str>>),
           Obj("ChatPhoto"), Get(1), If(9, <<tl_skip_restriction_reason_vector>>),
           If(14, <<Obj("ChatAdminRights")>>),
           If(15, <<Obj("ChatBannedRights")>>),
           If(18, <<Obj("ChatBannedRights")>>), If(17, <<Get(1)>>),
           If2(0, <<tl_skip_username_vector>>), If2(4, <<Get(1)>>),
           If2(7, <<Obj("PeerColor")>>), If2(8, <<Obj("PeerColor")>>),
           If2(9, <<Obj("EmojiStatus")>>), If2(10, <<Get(1)>>),
           If2(11, <<Get(1)>>)>>

extract_user_inner ==
    "userEmpty" :> <<Get(2)>>
    @@ Each({"user", "user2"},
            <<Need(2), Flg, Flg2, Get(2), If(0, <<Get(2)>>), If(1, <<Str>>),
              If(2, <<Str>>), If(3, <<Str>>), If(4, <<Str>>),
              If(5, <<Obj("UserProfilePhoto")>>), If(6, <<Obj("UserStatus")>>),
              If(14, <<Get(1)>>), If(18, <<tl_skip_restriction_reason_vector>>),
              If(19, <<Str>>), If(22, <<Str>>), If(30, <<Obj("EmojiStatus")>>),
              If2(0, <<tl_skip_username_vector>>), If2(5, <<Get(1)>>),
              If2(8, <<Obj("PeerColor")>>), If2(9, <<Obj("PeerColor")>>),
              If2(12, <<Get(1)>>)>>)

(***************************************************************************)
(* Messages: the skipper, and the parsers of domain/read.                  *)
(***************************************************************************)
skip_message_action ==
    Each({"actionEmpty", "actionChatDeletePhoto", "actionPinMessage",
          "actionHistoryClear", "actionScreenshotTaken",
          "actionContactSignUp", "actionChatJoinedByRequest"}, <<>>)
    @@ Each({"actionChatEditTitle", "actionChannelCreate",
             "actionCustomAction"}, <<Str>>)
    @@ Each({"actionChatDeleteUser", "actionChatMigrateTo",
             "actionChatJoinedByLink"}, <<Get(2)>>)
    @@ "actionChatCreate" :> <<Str, Words(2)>>
    @@ "actionChatAddUser" :> <<Words(2)>>
    @@ "actionChannelMigrateFrom" :> <<Str, Get(2)>>
    @@ "actionChatEditPhoto" :> <<tl_skip_photo>>
    @@ "actionPhoneCall" :>
         <<Need(3), Flg, Raw(2), If(0, <<Get(1)>>), If(1, <<Get(1)>>)>>
    @@ "actionGroupCall" :> <<Need(1), Flg, Get(5), If(0, <<Get(1)>>)>>
    @@ "actionGroupCallScheduled" :> <<Get(6)>>
    @@ "actionInviteToGroupCall" :> <<Get(5), Words(2)>>

\* The default case labels the entry and answers 0 without reading on.
parse_service_action ==
    Each({"actionEmpty", "actionChatDeletePhoto", "actionPinMessage",
          "actionHistoryClear", "actionScreenshotTaken",
          "actionContactSignUp", "actionChatJoinedByRequest",
          "unknown"}, <<>>)
    @@ Each({"actionChatEditTitle", "actionChannelCreate",
             "actionCustomAction"}, <<Str>>)
    @@ Each({"actionChatDeleteUser", "actionChatMigrateTo",
             "actionChatJoinedByLink"}, <<Get(2)>>)
    @@ "actionChatCreate" :> <<Str, Words(2)>>
    @@ "actionChatAddUser" :> <<Words(2)>>
    @@ "actionChannelMigrateFrom" :> <<Str, Get(2)>>
    @@ "actionChatEditPhoto" :> <<tl_skip_photo>>
    @@ "actionPhoneCall" :>
         <<Need(3), Flg, Raw(2), If(0, <<Get(1)>>), If(1, <<Get(1)>>)>>
    @@ "actionGroupCall" :> <<Need(1), Flg, Get(5), If(0, <<Get(1)>>)>>
    @@ "actionGroupCallScheduled" :> <<Get(6)>>
    @@ "actionInviteToGroupCall" :> <<Get(5), Words(2)>>

\* The fields of message#... between peer_id and message, and after media.
PreText ==
    <<If(28, <<Peer>>), If(2, <<Obj("MessageFwdHeader")>>), If(11, <<Get(2)>>),
      If2(0, <<Get(2)>>), If(3, <<Obj("MessageReplyHeader")>>), Get(1)>>

AfterText ==
    <<If(9, <<Obj("MessageMedia")>>), If(6, <<Obj("ReplyMarkup")>>),
      If(7, <<tl_skip_message_entities_vector>>), If(10, <<Get(2)>>),
      If(23, <<Obj("MessageReplies")>>), If(15, <<Get(1)>>), If(16, <<Str>>),
      If(17, <<Get(2)>>), If(20, <<Obj("MessageReactions")>>),
      If(22, <<tl_skip_restriction_reason_vector>>), If(25, <<Get(1)>>),
      If2(30, <<Get(1)>>), If2(2, <<Get(2)>>), If2(3, <<Obj("FactCheck")>>)>>

tl_skip_message ==
    "messageEmpty" :> <<Need(2), Flg, Raw(1), If(0, <<Peer>>)>>
    @@ "messageService" :>
         <<Need(2), Flg, Raw(1), If(8, <<Peer>>), Peer,
           If(3, <<Obj("MessageReplyHeader")>>), Get(1),
           Obj("MessageAction"), If(20, <<Obj("MessageReactions")>>),
           If(25, <<Get(1)>>)>>
    @@ "message" :>
         <<Need(3), Flg, Flg2, Raw(1), If(8, <<Peer>>), Peer>> \o PreText
         \o <<Str>> \o AfterText

\* domain_history_parse_service, after flags and id.
domain_history_parse_service ==
    <<If(8, <<Peer>>), Peer, If(3, <<Obj("MessageReplyHeader")>>), Get(1),
      Obj("parse_service_action"), If(25, <<Raw(1)>>)>>

history_parse_message ==
    "messageEmpty" :> <<Flg, Raw(1), If(0, <<Raw(3)>>)>>
    @@ "messageService" :> <<Flg, Raw(1)>> \o domain_history_parse_service
    @@ "message" :>
         <<Flg, Flg2, Raw(1), If(8, <<Peer>>), Peer>> \o PreText
         \o <<Bytes>> \o AfterText

\* Own copies of the same text in search.c and updates.c.
search_parse_message == history_parse_message
updates_parse_message == history_parse_message

skip_dialog_folder == "dialogFolder" :> <<Flg, Peer, Get(5)>>

\* The loop body of domain_get_dialogs; parse_peer reads the id unguarded.
dialog_entry ==
    "dialog" :>
       <<Flg, Raw(3), Raw(6), Obj("PeerNotifySettings"), If(0, <<Raw(1)>>),
         If(1, <<Obj("DraftMessage")>>), If(4, <<Raw(1)>>), If(5, <<Raw(1)>>)>>
    @@ skip_dialog_folder

\* Readers that stop inside the object: what they take must lie where it is.
parse_user ==
    "userEmpty" :> <<Raw(2)>>
    @@ Each({"user", "user2", "userFull"},
            <<Flg, Flg2, Raw(2), If(0, <<Raw(2)>>), If(1, <<Bytes>>),
              If(2, <<Bytes>>), If(3, <<Bytes>>), If(4, <<Bytes>>)>>)

parse_user_prefix ==
    Each({"user", "user2"},
         <<Flg, Flg2, Raw(2), If(0, <<Raw(2)>>), If(1, <<Bytes>>),
           If(2, <<Bytes>>), If(3, <<Bytes>>)>>)

parse_channel_prefix == "channel" :> <<Flg, Flg2, Raw(2), If(13, <<Raw(2)>>)>>
=============================================================================
