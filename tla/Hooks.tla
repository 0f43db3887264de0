--------------------------------- MODULE Hooks ---------------------------------
(***************************************************************************)
(* The queries and mutations of the front end (features/*/hooks): for each *)
(* query its key in the cache and the tables its endpoint reads, for each  *)
(* mutation the tables its endpoint writes and the keys it invalidates     *)
(* once it is answered.  One group, one book and one order group stand for *)
(* all; <<"groups", "one">> is their key ["groups", groupId].              *)
(***************************************************************************)
EXTENDS Sequences, SequencesExt, TLC

-----------------------------------------------------------------------------
(* Queries: keys, and what the endpoints read *)

\* Who is signed in.  Signing in, up and out set or drop the data themselves on
\* pages that show no query, and are left out.
UserKeys == [useMe |-> <<"auth", "me">>]

UserReads == [useMe |-> {"users"}]

GroupKeys ==
  [useMyGroups    |-> <<"groups", "list">>,
   useGroupByCode |-> <<"groups", "invite">>,
   useGroupDetail |-> <<"groups", "one">>]

GroupReads ==
  [useMyGroups    |-> {"groups", "members", "photos"},
   useGroupDetail |-> {"groups", "members", "photos", "anchors"}]

InvitationReads == [useGroupByCode |-> {"groups", "members"}]

DetectionKeys ==
  [useFaceDetectionStatus |-> <<"groups", "one", "face-detection-status">>]

DetectionReads == [useFaceDetectionStatus |-> {"photos", "faces"}]

ActivityKeys == [useActivities |-> <<"groups", "one", "activities">>]

ActivityReads == [useActivities |-> {"activities"}]

VotingKeys ==
  [useCoverCandidates |-> <<"cover-candidates", "one">>,
   useCoverCandidate  |-> <<"cover-candidates", "one", "candidate">>]

VotingReads == [q \in DOMAIN VotingKeys |-> {"candidates", "votes"}]

PhotoKeys ==
  [usePhotos          |-> <<"photos", "one", "list">>,
   useUploaderRanking |-> <<"photos", "one", "uploader-ranking">>,
   useChapters        |-> <<"photos", "one", "chapters">>]

PhotoReads == [usePhotos |-> {"photos"}]

RankingReads == [useUploaderRanking |-> {"photos"}, useChapters |-> {"photos"}]

BookKeys ==
  [useGroupBooks |-> <<"books", "group">>,
   useMyBooks    |-> <<"books", "my">>,
   useBook       |-> <<"books", "one">>,
   useBookPages  |-> <<"books", "one", "pages">>]

BookReads ==
  [useGroupBooks |-> {"books"}, useMyBooks |-> {"books"}, useBook |-> {"books"}]

PageReads == [useBookPages |-> {"books", "pages"}]

EditorKeys ==
  [useAvailableTemplates |-> <<"books", "one", "availableTemplates">>,
   useBookSpecInfo       |-> <<"books", "one", "specInfo">>,
   useGetCover           |-> <<"books", "one", "cover">>]

\* What Sweetbook offers no mutation writes; of the book these read its row.
EditorReads == [q \in DOMAIN EditorKeys |-> {"books"}]

\* What Sweetbook offers; no table of ours is read, but the keys begin as those
\* of the books do.
CatalogueKeys ==
  [useBookSpecs      |-> <<"books", "specs">>,
   useThemes         |-> <<"books", "themes">>,
   useCoverTemplates |-> <<"books", "cover-templates">>]

CatalogueReads == [useBookSpecs |-> {}, useThemes |-> {}]

CoverTemplateReads == [useCoverTemplates |-> {}]

PersonalKeys ==
  [useMyPersonalBook  |-> <<"groups", "one", "personal-book">>,
   usePersonalMatches |-> <<"groups", "one", "personal-book", "matches">>]

PersonalReads ==
  [useMyPersonalBook  |-> {"books", "pages"},
   usePersonalMatches |-> {"matches"}]

AnchorKeys == [useFaceAnchor |-> <<"face-anchor", "one">>]

AnchorReads == [useFaceAnchor |-> {"anchors"}]

OrderKeys ==
  [useOrderGroupByBook |-> <<"orders", "book">>,
   useCredits          |-> <<"orders", "credits">>,
   useEstimate         |-> <<"orders", "estimate">>]

MemberStatusKeys ==
  [useGroupMembersStatus |-> <<"orders", "groups", "membersStatus">>]

MyOrdersKeys == [useMyOrders |-> <<"orders", "my">>]

OrderReads ==
  [useOrderGroupByBook   |-> {"orderGroups", "orders", "books"},
   useGroupMembersStatus |-> {"orders", "members"},
   useMyOrders           |-> {"orderGroups", "orders", "books"}]

BillingReads == [useCredits |-> {"balance"}, useEstimate |-> {"books"}]

NotificationKeys ==
  [useNotifications |-> <<"notifications", "list">>,
   useUnreadCount   |-> <<"notifications", "unread-count">>]

\* The user's own.
NotificationReads == [q \in DOMAIN NotificationKeys |-> {"notifications"}]

\* Queries that are not tried again when they fail.
NoRetry == {"useMe", "useGroupByCode", "useOrderGroupByBook"}

Key == UserKeys @@ GroupKeys @@ DetectionKeys @@ ActivityKeys @@ VotingKeys @@ PhotoKeys
       @@ BookKeys @@ EditorKeys @@ CatalogueKeys @@ PersonalKeys @@ AnchorKeys
       @@ OrderKeys @@ MemberStatusKeys @@ MyOrdersKeys @@ NotificationKeys
Reads == UserReads @@ GroupReads @@ InvitationReads @@ DetectionReads @@ ActivityReads @@ VotingReads
         @@ PhotoReads @@ RankingReads @@ BookReads @@ PageReads @@ EditorReads
         @@ CatalogueReads @@ CoverTemplateReads @@ PersonalReads @@ AnchorReads
         @@ OrderReads @@ BillingReads @@ NotificationReads

-----------------------------------------------------------------------------
(* Mutations: what the endpoints write, and the keys invalidated *)

\* The profile page calls the API without a hook, and fetches the user again.
\* Other queries show names too, but not on this page.
UserWrites ==
  [handleSaveProfile |-> {"users"}, handleChangePassword |-> {"passwords"}]

\* The picture goes to the storage, its address to the row of the user.
AvatarWrites == [handleAvatarUpload |-> {"users"}]

WithdrawalWrites == [handleWithdraw |-> {"users", "passwords"}]

UserInvalidates ==
  [handleSaveProfile    |-> {<<"auth", "me">>},
   handleAvatarUpload   |-> {<<"auth", "me">>},
   handleChangePassword |-> {},
   handleWithdraw       |-> {}]

GroupWrites ==
  [useCreateGroup      |-> {"groups", "members"},
   useUpdateGroup      |-> {"groups"},
   useUploadGroupCover |-> {"groups"},
   useDeleteGroup      |-> {"groups", "members"},
   useJoinGroup        |-> {"members", "activities"},
   useLeaveGroup       |-> {"members"},
   useRemoveMember     |-> {"members"},
   useTransferOwner    |-> {"groups", "members"}]

GroupInvalidates ==
  [useCreateGroup      |-> {<<"groups", "list">>},
   useUpdateGroup      |-> {<<"groups", "list">>, <<"groups", "one">>},
   useUploadGroupCover |-> {<<"groups", "list">>, <<"groups", "one">>},
   useDeleteGroup      |-> {<<"groups", "list">>},
   useJoinGroup        |-> {<<"groups", "list">>},
   useLeaveGroup       |-> {<<"groups", "list">>},
   useRemoveMember     |-> {<<"groups", "one">>},
   useTransferOwner    |-> {<<"groups", "one">>}]

PhotoWrites ==
  [useUploadPhotos |-> {"photos", "activities"},
   useDeletePhoto  |-> {"photos", "faces", "pages", "matches", "candidates", "books"},
   useUpdatePhoto  |-> {"photos"}]

PhotoInvalidates == [m \in DOMAIN PhotoWrites |-> {<<"photos", "one">>}]

ImportWrites == [useKakaoImport |-> {"photos", "activities"}]

\* Fault: the key as useKakaoImport names the chapters, alone.
ImportInvalidatesChapters == [useKakaoImport |-> {<<"chapters", "one">>}]

ImportInvalidates == [useKakaoImport |-> {<<"photos", "one">>, <<"chapters", "one">>}]

VotingWrites ==
  [useCreateCoverCandidate  |-> {"candidates"},
   useUpdateCoverCandidate  |-> {"candidates"},
   useDeleteCoverCandidate  |-> {"candidates", "votes"},
   useToggleCoverVote       |-> {"votes", "activities"},
   useConfirmCoverCandidate |-> {"candidates", "activities"}]

VotingInvalidates == [m \in DOMAIN VotingWrites |-> {<<"cover-candidates", "one">>}]

\* updatePage leaves the row of the book alone; adding and deleting pages count
\* into its pageCount.
BookWrites ==
  [useCreateBook   |-> {"books", "activities"},
   useDeleteBook   |-> {"books", "pages", "matches", "orderGroups", "orders"},
   useAddPages     |-> {"pages", "books"},
   useUpdatePage   |-> {"pages"},
   useDeletePage   |-> {"pages", "books"},
   useFinalizeBook |-> {"books", "activities", "notifications"},
   useRetryBook    |-> {"books"},
   useToggleShare  |-> {"books"},
   useSetCover     |-> {"books"}]

BookInvalidates ==
  [useCreateBook   |-> {<<"books", "group">>},
   useDeleteBook   |-> {<<"books", "group">>, <<"books", "my">>,
                        <<"groups", "one", "personal-book">>},
   useAddPages     |-> {<<"books", "one", "pages">>, <<"books", "one">>},
   useUpdatePage   |-> {<<"books", "one", "pages">>},
   useDeletePage   |-> {<<"books", "one", "pages">>, <<"books", "one">>},
   useFinalizeBook |-> {<<"books", "one">>},
   useRetryBook    |-> {<<"books", "one">>, <<"books", "one", "specInfo">>},
   useToggleShare  |-> {<<"books", "one">>},
   useSetCover     |-> {<<"books", "one", "cover">>, <<"books", "one">>}]

\* A job generates the books of the group later on: queueing it writes nothing.
PersonalWrites ==
  [useRegisterFaceAnchor           |-> {"anchors"},
   useDeleteFaceAnchor             |-> {"anchors"},
   useGeneratePersonalBookForMe    |-> {"books", "pages", "matches", "activities"},
   useGeneratePersonalBooksForGroup |-> {},
   useExcludePhoto                 |-> {"matches", "pages", "anchors"}]

PersonalInvalidates ==
  [useRegisterFaceAnchor           |-> {<<"face-anchor", "one">>,
                                        <<"groups", "one", "personal-book">>},
   useDeleteFaceAnchor             |-> {<<"face-anchor", "one">>},
   useGeneratePersonalBookForMe    |-> {<<"groups", "one", "personal-book">>},
   useGeneratePersonalBooksForGroup |-> {<<"groups", "one", "personal-book">>},
   useExcludePhoto                 |-> {<<"groups", "one", "personal-book">>,
                                        <<"books", "one", "pages">>}]

\* Only the placing of an order, like the finalization of a book, notifies the
\* user who asked for it; a reminder is a mail.
OrderWrites ==
  [useCreateOrderGroup |-> {"orderGroups"},
   useRemindMembers    |-> {},
   useSubmitShipping   |-> {"orders"},
   useRejectOrder      |-> {"orders"},
   useConfirmAndPlace  |-> {"orders", "orderGroups", "books", "balance", "activities",
                            "notifications"},
   useCancelOrder      |-> {"orders", "balance"}]

OrderInvalidates ==
  [useCreateOrderGroup |-> {<<"orders", "book">>},
   useRemindMembers    |-> {},
   useSubmitShipping   |-> {<<"orders">>},
   useRejectOrder      |-> {<<"orders">>},
   useConfirmAndPlace  |-> {<<"orders">>, <<"books">>},
   useCancelOrder      |-> {<<"orders">>}]

NotificationWrites ==
  [useMarkAsRead |-> {"notifications"}, useMarkAllAsRead |-> {"notifications"}]

NotificationInvalidates ==
  [m \in DOMAIN NotificationWrites |->
     {<<"notifications">>, <<"notifications", "unread-count">>}]

Writes == UserWrites @@ AvatarWrites @@ WithdrawalWrites @@ GroupWrites @@ PhotoWrites
          @@ ImportWrites @@ VotingWrites @@ BookWrites @@ PersonalWrites
          @@ OrderWrites @@ NotificationWrites
Invalidates == UserInvalidates @@ GroupInvalidates @@ PhotoInvalidates
               @@ ImportInvalidates @@ VotingInvalidates @@ BookInvalidates
               @@ PersonalInvalidates @@ OrderInvalidates @@ NotificationInvalidates

\* A mutation changes what a query shows; invalidating goes by prefix.
Touches(m, q) == Reads[q] \cap Writes[m] # {}
Tells(m, q) == \E k \in Invalidates[m] : IsPrefix(k, Key[q])

-----------------------------------------------------------------------------
(* The pages of the front end: the queries a page shows side by side, and  *)
(* the mutations its user may start while they are on the screen.          *)

\* The header of every page for which one has to be signed in.
Header == {"useMe", "useUnreadCount"}

\* The list of groups, to which the pages that create, join, leave or dissolve a
\* group lead back.
GroupsPage ==
  [shows  |-> {"useMyGroups"},
   starts |-> {"useCreateGroup", "useUploadGroupCover", "useJoinGroup",
               "useLeaveGroup", "useDeleteGroup"}]

\* The head of the group page, its tabs, and the parts that start something.
GroupHead == {"useGroupDetail", "useFaceDetectionStatus"}
UploadModal == {"useUploadPhotos"}
ImportModal == {"useKakaoImport"}
PhotoGallery == [shows |-> {"usePhotos"}, starts |-> {"useDeletePhoto"}]
MemberList == {"useRemoveMember", "useTransferOwner"}
GroupSettings == {"useUpdateGroup"}
GroupBooksTab == {"useGroupBooks", "useBook", "useBookPages"}
GroupOrdersTab == {"useGroupBooks", "useOrderGroupByBook", "useGroupMembersStatus",
                   "useEstimate"}
ActivityTab == {"useUploaderRanking", "useActivities"}

\* Settings and the upload are at hand on each tab.
GroupDetailPage ==
  {[shows  |-> GroupHead \cup tab.shows,
    starts |-> UploadModal \cup GroupSettings \cup tab.starts] :
     tab \in {[PhotoGallery EXCEPT !.starts = @ \cup ImportModal],
              [shows |-> {}, starts |-> MemberList],
              [shows |-> GroupBooksTab, starts |-> {}],
              [shows |-> GroupOrdersTab, starts |-> {}],
              [shows |-> ActivityTab, starts |-> {}]}}

CoverCandidateModal == {"useCreateCoverCandidate", "useUpdateCoverCandidate"}

CoverVotingPage ==
  [shows  |-> {"useGroupDetail", "useCoverCandidates", "usePhotos", "useBookSpecs",
               "useCoverTemplates"},
   starts |-> CoverCandidateModal
              \cup {"useDeleteCoverCandidate", "useToggleCoverVote",
                    "useConfirmCoverCandidate"}]

\* Confirming a candidate leads here; creating the book leaves for the editor.
BookCreatePage ==
  [shows  |-> {"useCoverCandidate", "usePhotos", "useThemes", "useCoverTemplates"},
   starts |-> {"useConfirmCoverCandidate"}]

BookTemplatesPage == [shows |-> {"useBookSpecs"}, starts |-> {}]

BookListPage ==
  [shows  |-> {"useGroupDetail", "useGroupBooks"},
   starts |-> {"useCreateBook", "useDeleteBook"}]

BookEditorPage ==
  [shows  |-> {"useBook", "useBookPages", "useBookSpecInfo", "useAvailableTemplates",
               "usePhotos", "usePersonalMatches"},
   starts |-> {"useUploadPhotos", "useAddPages", "useDeletePage", "useUpdatePage",
               "useFinalizeBook", "useRetryBook", "useSetCover"}]

BookPreviewPage == [shows |-> {"useBook", "useBookPages"}, starts |-> {"useToggleShare"}]

FaceAnchorSetupPage ==
  [shows  |-> {"useFaceAnchor"},
   starts |-> {"useRegisterFaceAnchor", "useDeleteFaceAnchor",
               "useGeneratePersonalBookForMe"}]

PersonalBooksPage ==
  [shows  |-> {"useFaceAnchor", "useMyPersonalBook"},
   starts |-> {"useGeneratePersonalBookForMe", "useGeneratePersonalBooksForGroup",
               "useDeleteBook"}]

PersonalBookReviewPage ==
  [shows |-> {"useBook", "usePersonalMatches"}, starts |-> {"useExcludePhoto"}]

ShippingForm == {"useSubmitShipping"}

OrderPage ==
  [shows  |-> {"useBook", "useBookPages", "useEstimate", "useCredits",
               "useOrderGroupByBook", "useGroupMembersStatus", "usePhotos",
               "useAvailableTemplates"},
   starts |-> ShippingForm
              \cup {"useCreateOrderGroup", "useRejectOrder", "useConfirmAndPlace",
                    "useRemindMembers"}]

OrderCard == {"useCancelOrder"}

\* The order, once placed, and the book as it will be printed.
OrderCompletePage ==
  [shows |-> {"useMyOrders", "useBook", "useBookPages"}, starts |-> {}]

BookPrintPage ==
  [shows  |-> {"useBook", "useBookPages", "useAvailableTemplates", "usePhotos"},
   starts |-> {}]

OrdersPage == [shows |-> {"useMyOrders", "useMyBooks"}, starts |-> OrderCard]

NotificationsPage ==
  [shows  |-> {"useNotifications", "useUnreadCount"},
   starts |-> {"useMarkAsRead", "useMarkAllAsRead"}]

ProfilePage ==
  [shows  |-> {"useMyGroups", "useFaceAnchor"},
   starts |-> {"handleSaveProfile", "handleAvatarUpload", "handleChangePassword",
               "handleWithdraw"}]

\* Behind an invitation anyone may look at.
JoinPage == [shows |-> {"useGroupByCode", "useMe"}, starts |-> {"useJoinGroup"}]

Protected ==
  GroupDetailPage
  \cup {GroupsPage, CoverVotingPage, BookTemplatesPage, BookCreatePage, BookListPage,
        BookEditorPage, BookPreviewPage, BookPrintPage, FaceAnchorSetupPage,
        PersonalBooksPage, PersonalBookReviewPage, OrderPage, OrdersPage,
        OrderCompletePage, NotificationsPage, ProfilePage}

Screens == {JoinPage} \cup {[page EXCEPT !.shows = @ \cup Header] : page \in Protected}

\* What a page shows and is not told: uploading, importing or deleting photos
\* leaves the photo count and the progress of the face detection in the head of
\* the group page as they were, and the list of activities; finalizing and
\* ordering leave the count of unread notifications, which is fetched each
\* minute; joining leaves the invitation, and withdrawing the user, as they were.
Left ==
  {"useUploadPhotos", "useKakaoImport", "useDeletePhoto"}
    \X {"useGroupDetail", "useFaceDetectionStatus", "useActivities"}
  \cup {"useFinalizeBook", "useConfirmAndPlace"} \X {"useUnreadCount"}
  \cup {<<"useJoinGroup", "useGroupByCode">>, <<"handleWithdraw", "useMe">>}
=============================================================================
