------------------------------ MODULE MCDialogue ------------------------------
EXTENDS Dialogue, TLC

OneMsg == {1}

Kumar == <<"ramesh", "kumar">>
Gupta == <<"ramesh", "gupta">>
Suresh == <<"suresh">>
Rice == <<"rice">>
Soap == <<"soap">>
Maggi == <<"maggi">>

Spelt == {Kumar, Gupta, Suresh, Rice, Soap, Maggi, <<"ramesh">>, <<"raamesh", "kumar">>, <<"anil">>,
          <<"besan">>, <<"sope">>}

\* One customer was removed before; nobody is known as Anil yet.
MCCustomers ==
    [n \in Spelt |->
        [id |-> n, known |-> n \in {Kumar, Gupta, Suresh}, active |-> n \in {Kumar, Gupta}, aliases |-> {}]]

\* Rice has a price, soap none; maggi is not in the catalog yet.
MCProducts ==
    [n \in Spelt |->
        [id |-> n, known |-> n \in {Rice, Soap}, active |-> n \in {Rice, Soap}, aliases |-> {},
         unit |-> IF n = Rice THEN "kg" ELSE "piece", price |-> IF n = Rice THEN 5000 ELSE None]]

Words == {"ramesh", "raamesh", "kumar", "gupta", "suresh", "anil", "rice", "soap", "sope", "maggi", "besan"}
MCSkeleton == [t \in Words |-> IF t = "raamesh" THEN "ramesh" ELSE t]
MCAlike(m, n) == IF m = n THEN 100 ELSE IF m = <<"anil">> /\ n = Gupta THEN 85 ELSE 0
MCRatio(t, n) == IF <<t>> = n THEN 100 ELSE 0
MCNear(m, n) == IF <<m, n>> = <<<<"sope">>, Soap>> THEN 75 ELSE 0
MCLong == Words

KumarSale == [type |-> "CREDIT_SALE", customer |-> Kumar, product |-> Rice, qty |-> 2000, unit |-> "kg",
         total |-> None, price |-> None, priceUnit |-> Nobody, direction |-> Nobody, flags |-> {}]

\* Complete; ambiguous; by sound; a removed name; unknown items; missing numbers;
\* a price per dozen, a price in a unit that does not fit; amounts that round to 0;
\* a gram and a half.
MCSentences ==
    {KumarSale,
     [KumarSale EXCEPT !.customer = <<"ramesh">>],
     [KumarSale EXCEPT !.customer = <<"raamesh", "kumar">>, !.qty = None],
     [KumarSale EXCEPT !.customer = Suresh, !.type = "SALE"],
     [KumarSale EXCEPT !.customer = <<"anil">>, !.product = <<"sope">>, !.unit = Nobody],
     [KumarSale EXCEPT !.customer = <<>>, !.product = Maggi, !.unit = Nobody],
     [KumarSale EXCEPT !.type = "CASH_SALE", !.customer = <<>>, !.product = <<>>, !.total = 4],
     [KumarSale EXCEPT !.qty = 2000, !.unit = "packet", !.price = 50000],
     [KumarSale EXCEPT !.total = 60000],
     [KumarSale EXCEPT !.type = "CREDIT_REPAYMENT", !.product = <<>>, !.qty = None, !.unit = Nobody],
     [KumarSale EXCEPT !.type = "CREDIT_REPAYMENT", !.product = <<>>, !.qty = None, !.unit = Nobody, !.total = 4],
     [KumarSale EXCEPT !.type = "INVENTORY_PURCHASE", !.customer = <<>>, !.product = <<"besan">>],
     [KumarSale EXCEPT !.type = Nobody, !.flags = {"question"}],
     [KumarSale EXCEPT !.flags = {"multiple"}]}
    \cup {[KumarSale EXCEPT !.type = "CASH_SALE", !.product = Soap, !.unit = u, !.qty = q, !.price = r] :
              u \in {"dozen", "piece"}, q \in {1000, 3000}, r \in {50000, 55555, 10}}
    \cup {[KumarSale EXCEPT !.unit = "g", !.qty = q, !.price = r] :
              q \in {1500, 100000}, r \in {65, 10000}}

MCWizards ==
    {[Blank EXCEPT !.catalogOnly = "customer"],
     [Blank EXCEPT !.catalogOnly = "customer", !.newCustomer = Suresh],
     [Blank EXCEPT !.catalogOnly = "product"],
     [Blank EXCEPT !.catalogOnly = "product", !.newProduct = Rice, !.newUnit = "kg", !.newPrice = 2000]}

MCCommands ==
    {[cmd |-> "/price", words |-> Rice, price |-> 20000],
     [cmd |-> "/remove_product", words |-> Rice],
     [cmd |-> "/remove_product", words |-> Soap],
     [cmd |-> "/add_product", words |-> Soap, unit |-> "piece", price |-> 1000],
     [cmd |-> "/remove_customer", words |-> Kumar],
     [cmd |-> "/alias", words |-> Gupta, alias |-> <<"ramesh">>],
     [cmd |-> "/alias", words |-> Soap, alias |-> Maggi],
     [cmd |-> "/alias", words |-> Rice, alias |-> <<"sope">>],
     [cmd |-> "/add_customer", words |-> <<"anil">>],
     [cmd |-> "/add_product", words |-> Maggi, unit |-> "packet", price |-> 1400]}

MCNames == {<<"anil">>, <<"maggi">>, Suresh}
MCAmounts == {4, 3000}
=============================================================================
