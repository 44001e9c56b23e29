-------------------------- MODULE CustomerScreens --------------------------
(***************************************************************************)
(* The customer's screens: the hooks of use-customer.ts, the customer's    *)
(* half of use-delivery.ts and use-billing.ts, and the pages.              *)
(***************************************************************************)
EXTENDS DistributorScreens

-----------------------------------------------------------------------------
\* use-customer.ts: queries

CustomerProfile           == Query(<<"customer", "profile">>, getCustomerProfile)
NearbyDistributors        == Query(<<"customer", "distributors", "nearby", "where">>, findNearbyDistributors)
SearchDistributorsByName  == Query(<<"customer", "distributors", "search", "name">>, searchDistributorsByName)
DistributorDetail         == Query(<<"customer", "distributors", "id">>, getDistributorDetail)
CustomerSubscriptions     == Query(<<"customer", "subscriptions">>, listCustomerSubscriptions)
CustomerSubscription      == Query(<<"customer", "subscriptions", "id">>, getCustomerSubscription)

-----------------------------------------------------------------------------
\* use-customer.ts: changes

\* onSuccess also copies the answer into the signed-in user of the store; the
\* page's form is filled by an effect on that user and on the answer.
UpdateCustomerProfile ==
  Change("UpdateCustomerProfile", {"people"}, {<<"customer", "profile">>}, "again")

CreateCustomerSubscription ==
  Change("CreateCustomerSubscription", {"subs"}, {<<"customer", "subscriptions">>}, "once")

PauseSubscription ==
  Change("PauseSubscription", {"pauses"},
         {<<"customer", "subscriptions">>, <<"schedule-preview">>}, "again")

UpdateCustomerSubscription ==
  Change("UpdateCustomerSubscription", {"terms"},
         {<<"customer", "subscriptions">>, <<"customer", "subscriptions", "id">>,
          <<"schedule-preview">>}, "again")

\* Extra litres are rows that no screen reads back.
ExtraSubscription ==
  Change("ExtraSubscription", {},
         {<<"customer", "subscriptions">>, <<"schedule-preview">>}, "again")

-----------------------------------------------------------------------------
\* use-delivery.ts and use-billing.ts, the customer's half

CustomerDeliveries == Query(<<"customer", "deliveries", "from", "to">>, listForCustomer)
CustomerBills      == Query(<<"customer", "bills">>, listCustomerBills)
CustomerBill       == Query(<<"customer", "bills", "id">>, getCustomerBill)

-----------------------------------------------------------------------------
\* The pages

ProfilePage ==
  Page("ProfilePage", {CustomerProfile}, {UpdateCustomerProfile}, {},
       {Form(CustomerProfile, UpdateCustomerProfile, "user")})

\* Nothing is searched before the status shown says verified.
FindDistributorPage ==
  Page("FindDistributorPage",
       {CustomerProfile, IdentityStatus("customer"), NearbyDistributors, SearchDistributorsByName},
       {}, {}, {})

DistributorPage == Page("DistributorPage", {DistributorDetail}, {}, {}, {})

\* The form gives way to a link when the customer's list shows a
\* subscription to this distributor that runs or waits.
SubscribePage ==
  Page("SubscribePage", {DistributorDetail, CustomerSubscriptions}, {},
       When(SubscriptionFlow, {CreateCustomerSubscription}), {})

CustomerSubscriptionsPage ==
  Page("CustomerSubscriptionsPage", {CustomerSubscriptions}, {}, {}, {})

\* The terms are edited while the status shown is ACTIVE; the forms for a
\* pause, a skipped day (a pause of one day) and extra litres stand there
\* whatever the status.
CustomerSubscriptionCards ==
  [running  |-> {UpdateCustomerSubscription},
   whatever |-> {PauseSubscription, ExtraSubscription}]

\* The edit form is filled at every changed answer and sends all its fields.
CustomerSubscriptionPage ==
  Holding(
    Holding(
      Page("CustomerSubscriptionPage", {CustomerSubscription, DistributorDetail},
           CustomerSubscriptionCards.running \cup CustomerSubscriptionCards.whatever, {},
           {Form(CustomerSubscription, UpdateCustomerSubscription, "answered")}),
      SubscriptionEndPanel("customer")),
    DeliverySchedulePreview)

CustomerDeliveriesPage == Page("CustomerDeliveriesPage", {CustomerDeliveries}, {}, {}, {})

CustomerBillsPage == Page("CustomerBillsPage", {CustomerBills}, {}, {}, {})

CustomerBillPage == Page("CustomerBillPage", {CustomerBill}, {}, {}, {})

DocumentsPage ==
  Holding(Page("DocumentsPage", {IdentityStatus("customer")}, {}, {}, {}),
          IdentityDocumentsPanel("customer"))

CustomerPages ==
  {ProfilePage, FindDistributorPage, DistributorPage, SubscribePage,
   CustomerSubscriptionsPage, CustomerSubscriptionPage, CustomerDeliveriesPage,
   CustomerBillsPage, CustomerBillPage, DocumentsPage}

=============================================================================
