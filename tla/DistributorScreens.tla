------------------------- MODULE DistributorScreens -------------------------
(***************************************************************************)
(* The distributor's screens: the hooks of use-distributor.ts,             *)
(* use-delivery.ts and use-billing.ts and the pages that use them.         *)
(***************************************************************************)
EXTENDS SharedScreens, Naturals

CONSTANTS SubscriptionFlow, Billing     \* the feature flags

-----------------------------------------------------------------------------
\* use-distributor.ts: queries

DistributorProfile       == Query(<<"distributor", "profile">>, getDistributorProfile)
DistributorProducts      == Query(<<"distributor", "products">>, getProducts)
DistributorPricing       == Query(<<"distributor", "pricing">>, listPricing)
DeliverySlots            == Query(<<"distributor", "delivery-slots">>, listDeliverySlots)
DistributorCustomers     == Query(<<"distributor", "customers", "search">>, listDistributorCustomers)
DistributorCustomer      == Query(<<"distributor", "customers", "id">>, getDistributorCustomer)
DistributorSubscriptions == Query(<<"distributor", "subscriptions">>, listDistributorSubscriptions)

-----------------------------------------------------------------------------
\* use-distributor.ts: changes

UpdateDistributorProfile ==
  Change("UpdateDistributorProfile", {"business"}, {<<"distributor", "profile">>}, "again")

CompleteSetupStep ==
  Change("CompleteSetupStep", {"setup"}, {<<"distributor", "profile">>}, "again")

GoLive == Change("GoLive", {"setup", "live"}, {<<"distributor", "profile">>}, "again")

\* One call for the products switched on, one for those switched off.
UpdateDistributorProducts ==
  Change("UpdateDistributorProducts", {"enabled"}, {<<"distributor", "products">>}, "again")

CreateCustomProduct ==
  Change("CreateCustomProduct", {"catalog", "enabled", "prices"},
         {<<"distributor", "products">>, <<"distributor", "pricing">>}, "again")

DeactivateCustomProduct ==
  Change("DeactivateCustomProduct", {"catalog"},
         {<<"distributor", "products">>, <<"distributor", "pricing">>}, "again")

RequestProductPromotion ==
  Change("RequestProductPromotion", {"catalog"}, {<<"distributor", "products">>}, "again")

\* A second active price of the same product and fat is refused.
CreatePricing == Change("CreatePricing", {"prices"}, {<<"distributor", "pricing">>}, "once")
UpdatePricing == Change("UpdatePricing", {"prices"}, {<<"distributor", "pricing">>}, "again")

CreateDeliverySlot ==
  Change("CreateDeliverySlot", {"slots"}, {<<"distributor", "delivery-slots">>}, "again")
DeleteDeliverySlot ==
  Change("DeleteDeliverySlot", {"slots"}, {<<"distributor", "delivery-slots">>}, "again")

UpdateDistributorCustomer ==
  Change("UpdateDistributorCustomer", {"people"},
         {<<"distributor", "customers">>, <<"distributor", "customers", "id">>}, "again")

\* The e-mail address may be used once.
CreateDistributorCustomer ==
  Change("CreateDistributorCustomer", {"links"}, {<<"distributor", "customers">>}, "once")

CreateDistributorSubscription ==
  Change("CreateDistributorSubscription", {"subs"}, {<<"distributor", "subscriptions">>}, "once")

ApproveSubscription ==
  Change("ApproveSubscription", {"subs"},
         {<<"distributor", "subscriptions">>, <<"notifications">>}, "once")
RejectSubscription ==
  Change("RejectSubscription", {"subs"},
         {<<"distributor", "subscriptions">>, <<"notifications">>}, "once")

-----------------------------------------------------------------------------
\* use-delivery.ts

DistributorDeliveries == Query(<<"distributor", "deliveries", "filters">>, listForDistributor)
UnavailableDays       == Query(<<"distributor", "unavailable-days">>, listUnavailableDays)

GenerateDeliveries ==
  Change("GenerateDeliveries", {"items"}, {<<"distributor", "deliveries">>}, "again")

UpdateDeliveryItem ==
  Change("UpdateDeliveryItem", {"items", "unbilled"},
         {<<"distributor", "deliveries">>, <<"customer", "deliveries">>}, "again")

BulkDeliveryStatus ==
  Change("BulkDeliveryStatus", {"items", "unbilled"}, {<<"distributor", "deliveries">>}, "again")

\* Starting a journey makes the day's list first.
StartJourney ==
  Change("StartJourney", {"items"},
         {<<"distributor", "deliveries">>, <<"notifications">>}, "again")

\* Only the delivery's status, which no answer has.
CompleteJourney ==
  Change("CompleteJourney", {}, {<<"distributor", "deliveries">>}, "again")

CreateUnavailableDay ==
  Change("CreateUnavailableDay", {"away", "items"},
         {<<"distributor", "unavailable-days">>, <<"distributor", "deliveries">>,
          <<"notifications">>}, "once")
DeleteUnavailableDay ==
  Change("DeleteUnavailableDay", {"away"}, {<<"distributor", "unavailable-days">>}, "once")

-----------------------------------------------------------------------------
\* use-billing.ts, the distributor's half

BillingSettings  == Query(<<"distributor", "billing", "settings">>, getBillingSettings)
DistributorBills == Query(<<"distributor", "bills", "filters">>, listBills)
DistributorBill  == Query(<<"distributor", "bills", "id">>, getBill)
BillingDues      == Query(<<"distributor", "billing", "dues">>, getDues)

UpdateBillingSettings ==
  Change("UpdateBillingSettings", {"cycle"}, {<<"distributor", "billing", "settings">>}, "again")

RunBillingCycle ==
  Change("RunBillingCycle", {"bills", "unbilled"},
         {<<"distributor", "bills">>, <<"distributor", "billing", "dues">>}, "again")

RecordPayment ==
  Change("RecordPayment", {"payments"},
         {<<"distributor", "bills", "id">>, <<"distributor", "bills">>}, "again")

-----------------------------------------------------------------------------
\* The pages

\* The wizard's six steps, opened in any order: each offers its change and,
\* on continuing, the completion of the step, whose failure is swallowed.
\* Going live is offered when the profile shown is ready and not yet live.
SetupSteps ==
  <<{UpdateDistributorProfile, CompleteSetupStep},
    {CompleteSetupStep},
    {UpdateDistributorProducts, CompleteSetupStep},
    {CreatePricing, CompleteSetupStep},
    {CreateDeliverySlot, CompleteSetupStep},
    {GoLive, CompleteSetupStep}>>

\* The profile form is the first step, which is open from the start; it is
\* filled at every new profile, whichever step is open.
SetupPage ==
  Holding(
    Page("SetupPage",
         {DistributorProfile, DistributorProducts, DistributorPricing, DeliverySlots},
         UNION {SetupSteps[i] : i \in 1 .. 5},
         {GoLive},
         {Form(DistributorProfile, UpdateDistributorProfile, "always")}),
    IdentityDocumentsPanel("distributor"))

DashboardPage == Page("DashboardPage", {DistributorProfile}, {}, {}, {})

DistributorSettingsPage ==
  Page("DistributorSettingsPage", {DistributorProfile}, {UpdateDistributorProfile}, {},
       {Form(DistributorProfile, UpdateDistributorProfile, "settled")})

\* A row of the distributor's own products: one under review or promoted has
\* no button for asking again; a deactivated one has no row.
CustomProductRow == {DeactivateCustomProduct, RequestProductPromotion}

ProductsPage ==
  Page("ProductsPage", {DistributorProducts, DistributorPricing},
       {UpdateDistributorProducts, CreatePricing, UpdatePricing, CreateCustomProduct},
       CustomProductRow, {})

DeliverySlotsPage ==
  Page("DeliverySlotsPage", {DeliverySlots}, {CreateDeliverySlot, DeleteDeliverySlot}, {}, {})

CustomersPage == Page("CustomersPage", {DistributorCustomers}, {}, {}, {})

\* useForm({values}): the form takes every changed answer.
CustomerPage ==
  Page("CustomerPage", {DistributorCustomer}, {UpdateDistributorCustomer}, {},
       {Form(DistributorCustomer, UpdateDistributorCustomer, "answered")})

\* The form is shut once the activation link is on the screen.
NewCustomerPage == Page("NewCustomerPage", {}, {CreateDistributorCustomer}, {}, {})

SubscriptionsPage == Page("SubscriptionsPage", {DistributorSubscriptions}, {}, {}, {})

NewSubscriptionPage ==
  Page("NewSubscriptionPage", {DistributorCustomers, DistributorProducts, DeliverySlots},
       When(SubscriptionFlow, {CreateDistributorSubscription}), {}, {})

\* The subscription is picked from the list; approved or refused while the
\* list shows it PENDING_APPROVAL, ended in the panel when it runs or ran.
SubscriptionPage ==
  Holding(
    Page("SubscriptionPage", {DistributorSubscriptions}, {},
         {ApproveSubscription, RejectSubscription}, {}),
    SubscriptionEndPanel("distributor"))

\* In day mode the list and its journey can be worked on; a month is only
\* looked at.
DeliveryMode ==
  [day   |-> {GenerateDeliveries, BulkDeliveryStatus, StartJourney, CompleteJourney,
              CreateUnavailableDay},
   month |-> {}]

\* Marking an item is offered on a pending one, in day mode; an unavailable
\* day is taken back from its row.
DeliveryRow == {UpdateDeliveryItem, DeleteUnavailableDay}

DeliveriesPage ==
  Page("DeliveriesPage",
       {DeliverySlots, DistributorCustomers, UnavailableDays, DistributorDeliveries},
       UNION {DeliveryMode[mode] : mode \in {"day", "month"}}, DeliveryRow, {})

BillingPage ==
  Page("BillingPage", {DistributorBills}, When(Billing, {RunBillingCycle}), {}, {})

\* Each field is sent as it is changed.
BillingSettingsPage ==
  Page("BillingSettingsPage", {BillingSettings},
       When(Billing, {UpdateBillingSettings}), {}, {})

DuesPage == Page("DuesPage", {BillingDues}, {}, {}, {})

\* A payment is offered while the bill shows a balance and is not void.
BillPage ==
  Page("BillPage", {DistributorBill}, {}, When(Billing, {RecordPayment}), {})

DistributorPages ==
  {SetupPage, DashboardPage, DistributorSettingsPage, ProductsPage, DeliverySlotsPage,
   CustomersPage, CustomerPage, NewCustomerPage, SubscriptionsPage, NewSubscriptionPage,
   SubscriptionPage, DeliveriesPage, BillingPage, BillingSettingsPage, DuesPage, BillPage}

=============================================================================
