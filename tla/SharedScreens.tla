--------------------------- MODULE SharedScreens ---------------------------
(***************************************************************************)
(* Hooks and panels that distributors and customers both use: identity     *)
(* documents and the joint end of a subscription.                          *)
(***************************************************************************)
EXTENDS Answers, ScreenParts

-----------------------------------------------------------------------------
\* use-identity.ts

IdentityStatus(party) == Query(<<"identity", "status">>, getIdentityStatus(party))
IdentityDocuments     == Query(<<"identity", "documents">>, listDocuments)

DocumentKeys == {<<"identity">>, <<"distributor", "profile">>, <<"customer", "profile">>}

UploadIdentityDocument ==
  Change("UploadIdentityDocument", {"documents", "verified"}, DocumentKeys, "again")
DeleteIdentityDocument ==
  Change("DeleteIdentityDocument", {"documents", "verified"}, DocumentKeys, "once")

\* Two documents at most on the screen; a document is deleted from its row.
IdentityDocumentsPanel(party) ==
  Page("IdentityDocumentsPanel", {IdentityStatus(party), IdentityDocuments}, {},
       {UploadIdentityDocument, DeleteIdentityDocument}, {})

-----------------------------------------------------------------------------
\* use-subscription-end.ts, for the party that looks at the subscription

EndStatus(party) ==
  Query(<<party, "subscriptions", "id", "end-status">>, getEndRequest)

RequestEnd(party) ==
  Change("RequestEnd", {"subs", "ends"},
         {<<party, "subscriptions">>, <<party, "subscriptions", "id", "end-status">>}, "once")

\* The second party's confirmation bills what is left and cancels.
ConfirmEnd(party) ==
  Change("ConfirmEnd", {"subs", "ends", "bills", "unbilled"},
         {<<party, "subscriptions">>, <<party, "subscriptions", "id", "end-status">>,
          <<"customer", "bills">>, <<"distributor", "bills">>}, "once")

RejectEnd(party) ==
  Change("RejectEnd", {"subs", "ends"},
         {<<party, "subscriptions">>, <<party, "subscriptions", "id", "end-status">>}, "once")

\* Asked for while ACTIVE, confirmed by a party that has not, refused by the
\* party that did not ask: all by the status on the screen.
SubscriptionEndPanel(party) ==
  Page("SubscriptionEndPanel", {EndStatus(party)}, {},
       {RequestEnd(party), ConfirmEnd(party), RejectEnd(party)}, {})

\* The calendar of a subscription, under a key of its own.
SchedulePreview == Query(<<"schedule-preview", "id">>, previewSubscription)

DeliverySchedulePreview ==
  Page("DeliverySchedulePreview", {SchedulePreview}, {}, {}, {})

=============================================================================
