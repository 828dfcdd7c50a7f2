CONSTANTS
    c1 = c1
    c2 = c2
    b1 = b1
    b2 = b2
    r1 = r1
    r2 = r2
    Customers = {c1}
    BookingIds = {b1, b2}
    CustomerOf <- OneCustomer
    Prices = {1, 2}
    OpeningBalance = 2
    Requests = {r1, r2}
SPECIFICATION Spec
PROPERTIES
    KeepsPromise
