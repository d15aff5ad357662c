------------------------------- MODULE Routes ------------------------------
(***************************************************************************)
(* What each endpoint of the API asks of the caller: the routers of        *)
(* backend/app/modules, the permission catalogue of rbac/permissions.py    *)
(* and the roles every organisation starts with.                           *)
(*                                                                         *)
(* A permission "invoice:read" is the pair <<"invoice", "read">>; a grant  *)
(* may have "*" in either place.  A route records what it can write and    *)
(* the permissions that require_permission() demands.  A POST, PUT, PATCH  *)
(* or DELETE may write anything; a GET writes nothing, but for the few     *)
(* that keep something in order as they read (Tends).  Anyone, SignedIn    *)
(* and Staff stand for the routes that ask for no permission of an         *)
(* organisation.                                                           *)
(*                                                                         *)
(* An operator named Mut_... is a plausible mistake in the operator after  *)
(* it; nothing here uses it.                                               *)
(***************************************************************************)
EXTENDS Integers, SequencesExt

Permission ==
       {"organization"} \X {"read", "update", "delete", "billing"}
    \cup {"member"} \X {"read", "invite", "update", "remove"}
    \cup {"role"} \X {"read", "create", "update", "delete"}
    \cup {"audit"} \X {"read", "export"}
    \cup {"settings"} \X {"read", "update"}
    \cup {"account"} \X {"read", "write"}
    \cup {"journal"} \X {"read", "write", "post", "reverse"}
    \cup {"period"} \X {"read", "close"}
    \cup {"report"} \X {"read"}
    \cup {"customer"} \X {"read", "write"}
    \cup {"invoice"} \X {"read", "write", "approve"}
    \cup {"payment"} \X {"read", "write"}
    \cup {"supplier"} \X {"read", "write"}
    \cup {"purchase"} \X {"read", "write", "approve"}
    \cup {"inventory"} \X {"read", "write"}
    \cup {"document"} \X {"read", "write", "confirm"}
    \cup {"seal"} \X {"read", "write", "configure"}
    \cup {"proof"} \X {"export"}

\* is_valid_grant: the catalogue, a resource's wildcard, or everything.
Grant == Permission \cup {<<p[1], "*">> : p \in Permission} \cup {<<"*", "*">>}

expand_grants(grants) ==
    {p \in Permission : {p, <<p[1], "*">>, <<"*", "*">>} \cap grants # {}}

----------------------------------------------------------------------------
(* The seeded roles.                                                       *)

OwnerGrants == {<<"*", "*">>}
AdminGrants ==
    {<<"organization", "read">>, <<"organization", "update">>, <<"audit", "read">>,
     <<"audit", "export">>, <<"report", "read">>, <<"proof", "export">>}
    \cup ({"member", "role", "settings", "account", "journal", "period", "customer",
           "invoice", "payment", "supplier", "purchase", "inventory", "document",
           "seal"} \X {"*"})
AccountantGrants ==
    ({"organization", "member", "report", "customer", "supplier", "purchase",
      "inventory", "audit", "seal"} \X {"read"})
    \cup ({"account", "journal", "period", "invoice", "payment", "document"} \X {"*"})
    \cup {<<"seal", "write">>, <<"proof", "export">>}
SalesGrants ==
    ({"organization", "member", "invoice", "payment", "inventory", "period",
      "report", "seal"} \X {"read"})
    \cup {<<"customer", "*">>, <<"invoice", "write">>}
ViewerGrants ==
    {"organization", "member", "account", "journal", "period", "report",
     "customer", "invoice", "payment", "supplier", "purchase", "inventory",
     "document", "seal"} \X {"read"}

SYSTEM_ROLE_PERMISSIONS ==
    [owner |-> OwnerGrants, admin |-> AdminGrants, accountant |-> AccountantGrants,
     sales |-> SalesGrants, viewer |-> ViewerGrants]

----------------------------------------------------------------------------
(* The routes.                                                             *)

Anyone == {<<"anyone", "">>}
SignedIn == {<<"signed in", "">>}
Staff == {<<"staff", "">>}

Get(needs) == [writes |-> {}, needs |-> needs]
Change(needs) == [writes |-> {"anything"}, needs |-> needs]
Reads(resource) == Get({<<resource, "read">>})
Does(resource, action) == Change({<<resource, action>>})

\* A GET that writes: list_invitations() marks lapsed invitations as expired,
\* the billing screen creates what its organisation lacks of the standard chart
\* and the fiscal year (ensure_books()), the sealing page the row of its settings
\* (ensure_setting()), and exporting a proof leaves a record of it.
Tends(resource, action, what) == [writes |-> {what}, needs |-> {<<resource, action>>}]
Upkeep == {"lapsed_invitations", "standard_books", "sealing_settings"}

OrganizationRoutes ==
    [list_my_organizations |-> Get(SignedIn),
     create_organization |-> Change(SignedIn),
     get_current_organization |-> Reads("organization"),
     update_current_organization |-> Does("organization", "update"),
     delete_current_organization |-> Does("organization", "delete"),
     leave_organization |-> Change(SignedIn)]

MemberRoutes ==
    [list_members |-> Reads("member"),
     update_member |-> Does("member", "update"),
     suspend_member |-> Does("member", "update"),
     reactivate_member |-> Does("member", "update"),
     remove_member |-> Does("member", "remove")]

InvitationRoutes ==
    [list_invitations |-> Tends("member", "read", "lapsed_invitations"),
     create_invitation |-> Does("member", "invite"),
     resend_invitation |-> Does("member", "invite"),
     revoke_invitation |-> Does("member", "invite")]

AcceptRoutes ==
    [preview_invitation |-> Get(Anyone),
     accept_invitation |-> Change(SignedIn)]

RoleRoutes ==
    [list_permissions |-> Reads("role"), list_roles |-> Reads("role"),
     create_role |-> Does("role", "create"), get_role |-> Reads("role"),
     update_role |-> Does("role", "update"),
     delete_role |-> Does("role", "delete")]

SignInRoutes ==
    [register |-> Change(Anyone), verify_email |-> Change(Anyone),
     resend_verification |-> Change(Anyone), login |-> Change(Anyone),
     login_two_factor |-> Change(Anyone), refresh |-> Change(Anyone),
     logout |-> Change(SignedIn)]

PasswordlessRoutes ==
    [request_magic_link |-> Change(Anyone),
     verify_magic_link |-> Change(Anyone),
     start_device_sign_in |-> Change(Anyone),
     poll_device_sign_in |-> Change(Anyone), request_otp |-> Change(Anyone),
     verify_otp |-> Change(Anyone)]

PasswordRoutes ==
    [password_policy |-> Get(Anyone), forgot_password |-> Change(Anyone),
     reset_password |-> Change(Anyone), change_password |-> Change(SignedIn),
     begin_two_factor_setup |-> Change(SignedIn),
     enable_two_factor |-> Change(SignedIn),
     disable_two_factor |-> Change(SignedIn),
     regenerate_recovery_codes |-> Change(SignedIn)]

SessionRoutes ==
    [me |-> Get(SignedIn), list_sessions |-> Get(SignedIn),
     revoke_session |-> Change(SignedIn),
     switch_organization |-> Change(SignedIn),
     my_permissions |-> Get(SignedIn)]

UserRoutes ==
    [get_my_profile |-> Get(SignedIn),
     update_my_profile |-> Change(SignedIn),
     update_my_preferences |-> Change(SignedIn),
     get_my_stats |-> Get(SignedIn)]

AccountRoutes ==
    [list_accounts |-> Reads("account"),
     create_account |-> Does("account", "write"),
     get_account |-> Reads("account"),
     update_account |-> Does("account", "write"),
     delete_account |-> Does("account", "write"),
     account_ledger |-> Reads("journal")]

CalendarRoutes ==
    [list_fiscal_years |-> Reads("period"),
     create_fiscal_year |-> Does("period", "close"),
     close_period |-> Does("period", "close"),
     reopen_period |-> Does("period", "close"),
     list_journals |-> Reads("journal"),
     create_journal |-> Does("account", "write")]

EntryRoutes ==
    [list_entries |-> Reads("journal"),
     create_entry |-> Does("journal", "write"),
     get_entry |-> Reads("journal"),
     update_entry |-> Does("journal", "write"),
     post_entry |-> Does("journal", "post"),
     reverse_entry |-> Does("journal", "reverse"),
     delete_entry |-> Does("journal", "write")]

StatementRoutes ==
    [trial_balance |-> Reads("report"), profit_and_loss |-> Reads("report"),
     balance_sheet |-> Reads("report"),
     balance_sheet_view |-> Reads("report")]

ExportRoutes ==
    [balance_sheet_export |-> Reads("report"), cash_flow |-> Reads("report")]

MoneyAccountRoutes ==
    [options |-> Tends("journal", "read", "standard_books"),
     create_category |-> Does("account", "write"),
     create_money_account |-> Does("account", "write"),
     list_money_accounts |-> Tends("account", "read", "standard_books")]

BankDetailRoutes ==
    [archive_money_account |-> Does("account", "write"),
     restore_money_account |-> Does("account", "write"),
     get_bank_details |-> Reads("account"),
     put_bank_details |-> Does("account", "write")]

CardRoutes ==
    [list_cards |-> Reads("journal"), add_card |-> Does("account", "write"),
     update_card |-> Does("account", "write"),
     delete_card |-> Does("account", "write"),
     delete_money_account |-> Does("account", "write"),
     archive_card |-> Does("account", "write"),
     restore_card |-> Does("account", "write")]

Mut_RecordRoutes == [record_entry |-> Change({<<"journal", "read">>})]
RecordRoutes ==
    [create_transfer |-> Does("journal", "write"),
     record_entry |-> Does("journal", "write")]

DayBookRoutes ==
    [list_entries |-> Reads("journal"), summary |-> Reads("journal"),
     get_entry |-> Reads("journal"),
     reverse_entry |-> Does("journal", "reverse")]

CustomerRoutes ==
    [list_customers |-> Reads("customer"),
     create_customer |-> Does("customer", "write"),
     get_customer |-> Reads("customer"),
     update_customer |-> Does("customer", "write"),
     delete_customer |-> Does("customer", "write"),
     customer_statement |-> Reads("customer")]

LeadRoutes ==
    [list_leads |-> Reads("customer"),
     create_lead |-> Does("customer", "write"),
     lead_pipeline |-> Reads("customer"), get_lead |-> Reads("customer"),
     update_lead |-> Does("customer", "write"),
     convert_lead |-> Does("customer", "write")]

QuotationRoutes ==
    [list_quotations |-> Reads("invoice"),
     create_quotation |-> Does("invoice", "write"),
     get_quotation |-> Reads("invoice"),
     update_quotation |-> Does("invoice", "write"),
     send_quotation |-> Does("invoice", "write"),
     accept_quotation |-> Does("invoice", "write"),
     reject_quotation |-> Does("invoice", "write")]

OrderRoutes ==
    [list_orders |-> Reads("invoice"),
     create_order |-> Does("invoice", "write"),
     order_from_quotation |-> Does("invoice", "write"),
     get_order |-> Reads("invoice"),
     confirm_order |-> Does("invoice", "write"),
     cancel_order |-> Does("invoice", "write")]

InvoiceRoutes ==
    [list_invoices |-> Reads("invoice"),
     create_invoice |-> Does("invoice", "write"),
     receivables_ageing |-> Reads("invoice"),
     sales_summary |-> Reads("report"), get_invoice |-> Reads("invoice"),
     update_invoice |-> Does("invoice", "write")]

InvoicePostingRoutes ==
    [post_invoice |-> Does("invoice", "approve"),
     cancel_invoice |-> Does("invoice", "approve"),
     delete_invoice |-> Does("invoice", "write")]

PaymentRoutes ==
    [list_payments |-> Reads("payment"),
     record_payment |-> Does("payment", "write"),
     get_payment |-> Reads("payment"),
     allocate_payment |-> Does("payment", "write"),
     auto_allocate_payment |-> Does("payment", "write")]

SupplierRoutes ==
    [list_suppliers |-> Reads("supplier"),
     create_supplier |-> Does("supplier", "write"),
     get_supplier |-> Reads("supplier"),
     update_supplier |-> Does("supplier", "write")]

ProductRoutes ==
    [list_products |-> Reads("inventory"),
     create_product |-> Does("inventory", "write"),
     product_by_barcode |-> Reads("inventory"),
     reorder_report |-> Reads("inventory"),
     get_product |-> Reads("inventory"),
     update_product |-> Does("inventory", "write")]

StockReadRoutes ==
    [list_warehouses |-> Reads("inventory"),
     create_warehouse |-> Does("inventory", "write"),
     stock_levels |-> Reads("inventory"),
     stock_movements |-> Reads("inventory")]

StockRoutes ==
    [stock_valuation |-> Reads("report"),
     adjust_stock |-> Does("inventory", "write"),
     transfer_stock |-> Does("inventory", "write")]

PurchaseOrderRoutes ==
    [list_purchase_orders |-> Reads("purchase"),
     create_purchase_order |-> Does("purchase", "write"),
     get_purchase_order |-> Reads("purchase"),
     approve_purchase_order |-> Does("purchase", "approve"),
     cancel_purchase_order |-> Does("purchase", "write")]

ReceiptRoutes ==
    [list_receipts |-> Reads("purchase"),
     create_receipt |-> Does("purchase", "write"),
     get_receipt |-> Reads("purchase"),
     post_receipt |-> Does("purchase", "approve"),
     cancel_receipt |-> Does("purchase", "approve")]

BillRoutes ==
    [list_bills |-> Reads("purchase"),
     create_bill |-> Does("purchase", "write"),
     payables_ageing |-> Reads("purchase"), get_bill |-> Reads("purchase"),
     post_bill |-> Does("purchase", "approve"),
     cancel_bill |-> Does("purchase", "approve")]

SupplierPaymentRoutes ==
    [list_supplier_payments |-> Reads("payment"),
     pay_supplier |-> Does("payment", "write"),
     get_supplier_payment |-> Reads("payment"),
     allocate_supplier_payment |-> Does("payment", "write")]

DocumentReadRoutes ==
    [capabilities |-> Reads("document"),
     upload_document |-> Does("document", "write"),
     list_documents |-> Reads("document"),
     get_document |-> Reads("document"),
     get_document_text |-> Reads("document")]

DocumentReviewRoutes ==
    [download_document |-> Reads("document"),
     reextract_document |-> Does("document", "write"),
     correct_document |-> Does("document", "write")]

DocumentConfirmRoutes ==
    [confirm_document |-> Change({<<"document", "confirm">>, <<"purchase", "write">>}),
     reject_document |-> Does("document", "write"),
     delete_document |-> Does("document", "write")]

SealingRoutes ==
    [network_info |-> Get(Anyone), canonical_spec |-> Get(Anyone),
     read_status |-> Tends("seal", "read", "sealing_settings"),
     enable |-> Does("seal", "configure"),
     disable |-> Does("seal", "configure"),
     set_cadence |-> Does("seal", "configure"),
     rotate_signer |-> Does("seal", "configure")]

SealRoutes ==
    [list_seals |-> Reads("seal"), seal_now |-> Does("seal", "write"),
     reconcile |-> Does("seal", "write"), drain |-> Does("seal", "write"),
     export_proof |-> Tends("proof", "export", "audit_trail")]

PublicRoutes ==
    [public_network_info |-> Get(Anyone), public_spec |-> Get(Anyone),
     verify_bundle |-> Change(Anyone), public_chain |-> Get(Anyone)]

ChainRoutes ==
    [adoption |-> Get(Staff), chain_health |-> Reads("seal")]

AnalyticsRoutes ==
    [list_periods |-> Reads("report"), dashboard |-> Reads("report"),
     trend |-> Reads("report")]

RankingRoutes ==
    [top_customers |-> Reads("report"), top_products |-> Reads("report"),
     control_checks |-> Reads("report")]

AuditRoutes ==
    [list_audit_log |-> Reads("audit"),
     list_audit_actions |-> Reads("audit")]

FeedbackRoutes ==
    [submit |-> Change(Anyone), track |-> Change(Anyone),
     summary |-> Get(Staff), inbox |-> Get(Staff), triage |-> Change(Staff),
     usage |-> Get(Staff)]

HealthRoutes ==
    [liveness |-> Get(Anyone), readiness |-> Get(Anyone),
     health |-> Get(Anyone)]

Routes ==
    UNION {Range(OrganizationRoutes), Range(MemberRoutes),
           Range(InvitationRoutes), Range(AcceptRoutes), Range(RoleRoutes),
           Range(SignInRoutes), Range(PasswordlessRoutes),
           Range(PasswordRoutes), Range(SessionRoutes), Range(UserRoutes),
           Range(AccountRoutes), Range(CalendarRoutes), Range(EntryRoutes),
           Range(StatementRoutes), Range(ExportRoutes),
           Range(MoneyAccountRoutes), Range(BankDetailRoutes),
           Range(CardRoutes), Range(RecordRoutes), Range(DayBookRoutes),
           Range(CustomerRoutes), Range(LeadRoutes), Range(QuotationRoutes),
           Range(OrderRoutes), Range(InvoiceRoutes),
           Range(InvoicePostingRoutes), Range(PaymentRoutes),
           Range(SupplierRoutes), Range(ProductRoutes),
           Range(StockReadRoutes), Range(StockRoutes),
           Range(PurchaseOrderRoutes), Range(ReceiptRoutes),
           Range(BillRoutes), Range(SupplierPaymentRoutes),
           Range(DocumentReadRoutes), Range(DocumentReviewRoutes),
           Range(DocumentConfirmRoutes), Range(SealingRoutes),
           Range(SealRoutes), Range(PublicRoutes), Range(ChainRoutes),
           Range(AnalyticsRoutes), Range(RankingRoutes), Range(AuditRoutes),
           Range(FeedbackRoutes), Range(HealthRoutes)}

\* The routes that ask for permissions of an organisation.
GuardedRoutes == {r \in Routes : r.needs \subseteq Permission}

\* require_permission, for the permissions a token holds in its organisation.
require_permission(held, r) == r.needs \subseteq held
=============================================================================
