CONSTANTS
    Operations = {"create_customer", "update_customer", "delete_customer", "create_lead", "update_lead", "convert_lead", "create_quotation", "update_quotation", "mark_sent", "respond", "create_order", "from_quotation", "confirm_order", "cancel_order", "create_invoice", "update_invoice", "post_invoice", "cancel_invoice", "delete_draft", "record_payment", "allocate", "auto_allocate"}
    SellerState = 27
    CustomerForms <- MCForms
    Documents <- MCDocuments
    Amounts = {10000, 20000}
    DepositAccounts = {"cash"}
    MaxRows <- MCRows
    MaxRequests = 5
SPECIFICATION Spec
INVARIANTS ReceivablesAgree OrderTracksInvoices DraftsCanBePosted
CHECK_DEADLOCK FALSE
