CONSTANTS
    Operations = {"create_account", "update_account", "delete_account", "create_category", "create_money_account", "set_money_account_active", "update_bank_details", "delete_money_account", "create_card", "update_card", "delete_card", "record", "transfer", "reverse", "reverse_entry", "create_year", "close_period", "reopen_period"}
    Names = {"n"}
    Parents = {1110, 4000}
    Faces = {"visa1", "rupay2"}
    Numbers = {"9"}
    MaxAmount = 1
    MaxAccounts = 11
    MaxEntries = 2
    MaxCards = 1
    MaxYears = 1
    LastDay = 1
    MonthDays = 2
    YearMonths = 1
    StartMonth = 0
    PageSize = 200
    MaxRequests = 4
    Today = 1
SPECIFICATION Spec
INVARIANTS DayBookReadsBack HistoryKeepsItsAccounts SummaryIsProfit OfferedIsAccepted
CHECK_DEADLOCK FALSE
