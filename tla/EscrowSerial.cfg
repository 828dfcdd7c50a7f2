CONSTANTS
    c1 = c1
    c2 = c2
    b1 = b1
    b2 = b2
    r1 = r1
    r2 = r2
    Customers = {c1, c2}
    BookingIds = {b1, b2}
    CustomerOf <- OneCustomer
    Prices <- SignedPrices
    OpeningBalance = 1
    Requests = {r1}
SYMMETRY Symmetry
SPECIFICATION Spec
PROPERTIES
    KeepsPromise
INVARIANTS
    NoOverdraft
