CONSTANTS
    Operations = {"create_supplier", "update_supplier", "create_product", "update_product", "create_warehouse", "adjust", "transfer", "create_order", "approve_order", "cancel_order", "create_receipt", "post_receipt", "cancel_receipt", "create_bill", "post_bill", "cancel_bill", "pay", "allocate"}
    OwnState = 27
    SupplierForms <- MCSuppliers
    ProductForms <- MCProducts
    OpeningSuppliers <- MCOpeningSuppliers
    OpeningProducts <- MCOpeningProducts
    Deliveries <- MCDeliveries
    Documents <- MCDocuments
    InvoiceNumbers = {0, 1}
    Deltas <- MCDeltas
    Costs = {50}
    Amounts = {10000}
    SourceAccounts = {"bank"}
    MaxRows <- MCRows
    MaxRequests = 4
SPECIFICATION Spec
INVARIANTS PayablesAgree StockAddsUp
PROPERTY StockFollowsLedger
CHECK_DEADLOCK FALSE
