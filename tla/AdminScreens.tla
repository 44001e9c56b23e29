---------------------------- MODULE AdminScreens ----------------------------
(***************************************************************************)
(* The admin's screens: the hooks of use-admin.ts and the pages, and what  *)
(* every role's dashboard mounts around its pages.                         *)
(***************************************************************************)
EXTENDS CustomerScreens

-----------------------------------------------------------------------------
\* use-admin.ts

AdminKpis               == Query(<<"admin", "kpis">>, getKpis)
AdminDistributors       == Query(<<"admin", "distributors", "search">>, listDistributors)
AdminCustomers          == Query(<<"admin", "customers">>, listAllCustomers)
AdminCustomer           == Query(<<"admin", "customers", "id">>, getAnyCustomer)
AdminSubscriptions      == Query(<<"admin", "subscriptions", "status">>, listAllSubscriptions)
PlatformSettings        == Query(<<"admin", "settings">>, getPlatformSettings)
AdminProducts           == Query(<<"admin", "products", "includeInactive">>, listGlobalProducts)
AdminProductSubmissions == Query(<<"admin", "products", "submissions">>, listDistributorSubmissions)

SuspendDistributor ==
  Change("SuspendDistributor", {"suspended"}, {<<"admin", "distributors">>}, "again")
UpdatePlatformSettings ==
  Change("UpdatePlatformSettings", {"limits"}, {<<"admin", "settings">>}, "again")
CreateAdminProduct ==
  Change("CreateAdminProduct", {"catalog"}, {<<"admin", "products">>}, "once")
UpdateAdminProduct ==
  Change("UpdateAdminProduct", {"names", "catalog"}, {<<"admin", "products">>}, "again")
DeactivateAdminProduct ==
  Change("DeactivateAdminProduct", {"catalog"}, {<<"admin", "products">>}, "again")
PromoteAdminProduct ==
  Change("PromoteAdminProduct", {"catalog"}, {<<"admin", "products">>}, "once")
RejectAdminProductPromotion ==
  Change("RejectAdminProductPromotion", {"catalog"}, {<<"admin", "products">>}, "again")
KeepPrivateAdminProduct ==
  Change("KeepPrivateAdminProduct", {"catalog"}, {<<"admin", "products">>}, "again")

\* The page asks these itself.
OperationsDeliveries == Query(<<"admin", "operations", "deliveries">>, getDeliveryStats)
OperationsBilling    == Query(<<"admin", "operations", "billing">>, getBillingStats)

-----------------------------------------------------------------------------
\* The pages

AdminDashboardPage == Page("AdminDashboardPage", {AdminKpis}, {}, {}, {})

\* Suspend or lift: the button asks for the opposite of the status shown.
AdminDistributorsPage ==
  Page("AdminDistributorsPage", {AdminDistributors}, {SuspendDistributor}, {}, {})

\* The drawer shows the customer picked from the list.
AdminCustomersPage ==
  Page("AdminCustomersPage", {AdminCustomers, AdminCustomer}, {}, {}, {})

AdminSubscriptionsPage ==
  Page("AdminSubscriptionsPage", {AdminSubscriptions}, {}, {}, {})

\* Deactivating is offered on an active product, promoting on a listed
\* submission, refusing on one under review.
ProductTabs ==
  [catalog     |-> {DeactivateAdminProduct},
   submissions |-> {PromoteAdminProduct, RejectAdminProductPromotion}]

\* startEdit copies the product's row into the form once; a refetch leaves
\* the form alone.
AdminProductsPage ==
  Page("AdminProductsPage", {AdminProducts, AdminProductSubmissions},
       {CreateAdminProduct, UpdateAdminProduct, KeepPrivateAdminProduct},
       UNION {ProductTabs[tab] : tab \in {"catalog", "submissions"}},
       {Form(AdminProducts, UpdateAdminProduct, "asked")})

AdminSettingsPage ==
  Page("AdminSettingsPage", {PlatformSettings}, {UpdatePlatformSettings}, {},
       {Form(PlatformSettings, UpdatePlatformSettings, "settled")})

OperationsPage ==
  Page("OperationsPage", {OperationsDeliveries, OperationsBilling}, {}, {}, {})

\* Only says that documents are verified by themselves.
VerificationPage == Page("VerificationPage", {}, {}, {}, {})

AdminPages ==
  {AdminDashboardPage, AdminDistributorsPage, AdminCustomersPage, AdminSubscriptionsPage,
   AdminProductsPage, AdminSettingsPage, OperationsPage, VerificationPage}

-----------------------------------------------------------------------------
Role == {"DISTRIBUTOR", "CUSTOMER", "ADMIN"}

Pages == [DISTRIBUTOR |-> DistributorPages, CUSTOMER |-> CustomerPages, ADMIN |-> AdminPages]

\* DashboardLayout asks for the profile of the role, for as long as any of
\* its pages is open.
DashboardLayout ==
  [DISTRIBUTOR |-> {DistributorProfile}, CUSTOMER |-> {CustomerProfile}, ADMIN |-> {}]

=============================================================================
