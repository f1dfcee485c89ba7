SPECIFICATION Spec
CONSTANTS
    TicketSpecs <- Tickets
    OrderSpecs <- Orders
    QuotaSpecs <- AllQuotas
    MaxInt = 127
    Moments <- Times
INVARIANTS
    TypeOK
    WritesAdmitted
    TicketsFollow
    OrderCoversTickets
    SchedulesMean
