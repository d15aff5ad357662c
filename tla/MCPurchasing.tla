---------------------------- MODULE MCPurchasing ----------------------------
EXTENDS Purchasing

Line(product, quantity, price, rate, percent, account) ==
    [product |-> product, quantity |-> quantity, unit_price |-> price, tax_rate |-> rate,
     discount_percent |-> percent, discount_amount |-> None, account |-> account]

MCSuppliers == {[state |-> 27, country |-> "IN"]}
MCProducts == {[kind |-> "stocked", inventory |-> "own_stock", purchase_price |-> 3]}
MCOpeningSuppliers == <<Supplier([state |-> 29, country |-> "IN"])>>
MCOpeningProducts ==
    <<Product([kind |-> "stocked", inventory |-> "inventory", purchase_price |-> 2])>>

\* Half a unit of money rounds up; some are rejected, some delivered free.
MCDeliveries ==
    {<<GoodsReceiptLine(1, 3, 1, 150)>>,
     <<GoodsReceiptLine(1, 1, 0, 250), GoodsReceiptLine(1, 1, 0, 0)>>,
     <<GoodsReceiptLine(1, 1, 1, 250)>>}
MCDocuments ==
    {<<Line(1, 2, 7005, 18, 0, NoAccount), Line(0, 1, 2335, 5, 10, "freight")>>}
MCDeltas == {1, -2}
MCRows == [suppliers |-> 2, products |-> 2, warehouses |-> 2, orders |-> 1, receipts |-> 2,
           bills |-> 2, payments |-> 2]
=============================================================================
