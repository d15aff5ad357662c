------------------------------ MODULE MCSales ------------------------------
EXTENDS Sales

Line(quantity, price, rate, percent, amount, account) ==
    [quantity |-> quantity, unit_price |-> price, tax_rate |-> rate,
     discount_percent |-> percent, discount_amount |-> amount, account |-> account]

\* Two uneven lines that round down; a free line and an odd tax that round up.
MCDocuments ==
    {<<Line(3, 3335, 18, 0, None, "sales"), Line(1, 2333, 5, 10, None, "other")>>,
     <<Line(1, 15000, 28, 0, 20000, "sales"), Line(1, 15005, 18, 0, None, "sales")>>}
MCForms ==
    {[state |-> 27, country |-> "IN", exempt |-> FALSE],
     [state |-> 29, country |-> "IN", exempt |-> FALSE]}
MCRows == [customers |-> 1, leads |-> 1, quotations |-> 1, orders |-> 1, invoices |-> 2,
           payments |-> 2]
=============================================================================
