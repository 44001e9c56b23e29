------------------------------ MODULE Answers ------------------------------
(***************************************************************************)
(* What each reading endpoint of the API answers, as the set of the facts  *)
(* in its answer that its screens show.  A fact is something a call can    *)
(* change:                                                                 *)
(*   business, setup, cycle    a distributor's name and address, its setup *)
(*                             steps and go-live, its billing settings     *)
(*   documents, verified       identity documents, the flag they set       *)
(*   live                      which distributors customers are shown      *)
(*   names, catalog, enabled   products' names; which there are and under  *)
(*                             which review; the distributor's choice      *)
(*   prices, slots             the distributor's prices and delivery slots *)
(*   people, links, accounts   customers' names and addresses, whose       *)
(*                             customers they are, whether activated       *)
(*   suspended                 distributors' accounts, suspended or not    *)
(*   subs, terms               which subscriptions there are and in which  *)
(*                             status; their quantity, days and slot       *)
(*   ends, pauses              requests to end one, pauses                 *)
(*   items, unbilled, away     delivery items, the delivered ones that no  *)
(*                             bill has, unavailable days                  *)
(*   bills, payments, limits   bills, what was paid on them, the           *)
(*                             platform's settings                         *)
(* The screens that show the answers are in DistributorScreens,            *)
(* CustomerScreens and AdminScreens.                                       *)
(***************************************************************************)

Fact == {"business", "setup", "cycle", "documents", "verified", "live", "names",
         "catalog", "enabled", "prices", "slots", "people", "links", "accounts",
         "suspended", "subs", "terms", "ends", "pauses", "items", "unbilled", "away", "bills",
         "payments", "limits"}

-----------------------------------------------------------------------------
\* GET /distributor/...

\* What is missing for going live is worked out at each reading.
checkReadiness == {"business", "documents", "verified", "enabled", "prices", "slots"}

getDistributorProfile == {"business", "setup", "cycle", "verified"} \cup checkReadiness

\* The global products and the distributor's own, those not deactivated.
getProducts == {"names", "catalog", "enabled"}

listPricing == {"prices", "names"}

\* Removed slots are listed too.
listDeliverySlots == {"slots"}

listDistributorCustomers == {"links", "people", "accounts"}

\* With the customer's subscriptions to this distributor.
getDistributorCustomer == {"people", "accounts", "subs", "terms", "names"}

listDistributorSubscriptions == {"subs", "terms", "people", "names"}

listUnavailableDays == {"away"}

\* The items of the days or the month asked for, of one slot or customer.
listForDistributor == {"items", "people", "names"}

getBillingSettings == {"cycle"}

listBills == {"bills", "payments", "people"}

getBill == {"bills", "payments", "people", "names"}

\* Open bills with something left to pay, added up by customer.
getDues == {"bills", "payments", "people"}

-----------------------------------------------------------------------------
\* GET /customer/...

getCustomerProfile == {"people", "verified"}

\* Live distributors in reach that have a price and a slot.
findNearbyDistributors ==
  {"live", "business", "prices", "slots", "enabled", "names"}

searchDistributorsByName ==
  {"live", "business", "prices", "slots", "enabled", "names"}

getDistributorDetail ==
  {"live", "business", "prices", "slots", "enabled", "names"}

listCustomerSubscriptions == {"subs", "terms", "business", "names"}

getCustomerSubscription == {"subs", "terms", "business", "names"}

\* The days of the subscription's calendar and those its pauses cover.
previewSubscription == {"terms", "pauses"}

listForCustomer == {"items", "names"}

listCustomerBills == {"bills", "payments", "business"}

getCustomerBill == {"bills", "payments", "business", "names"}

-----------------------------------------------------------------------------
\* Both parties

\* With the registered name: the owner's or the customer's.
getIdentityStatus(party) ==
  {"documents"} \cup (IF party = "distributor" THEN {"business"} ELSE {"people"})

listDocuments == {"documents"}

\* What ending now would bill: the unbilled deliveries at their prices.
buildSettlementLines == {"unbilled", "prices", "names"}

getEndRequest == {"subs", "ends"} \cup buildSettlementLines

-----------------------------------------------------------------------------
\* GET /admin/...

\* Counts of profiles, of running subscriptions, of profiles not verified.
getKpis == {"subs", "verified"}

listDistributors == {"business", "setup", "verified", "suspended"}

listAllCustomers == {"people", "accounts", "links", "business"}

getAnyCustomer == {"people", "accounts", "links", "business", "subs", "terms", "names"}

listAllSubscriptions == {"subs", "terms", "people", "business", "names"}

getPlatformSettings == {"limits"}

listGlobalProducts == {"names", "catalog"}

listDistributorSubmissions == {"names", "catalog", "business"}

getDeliveryStats == {"items"}

\* Sums of what bills ask and what was paid, void bills left out.
getBillingStats == {"bills", "payments"}

=============================================================================
