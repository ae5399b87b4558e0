\* Three messages arrive, four are sent, one call sets a filter, in any order.  Identifiers
\* at the limits of their fields, and three of the calls that set masks and filters,
\* read a frame or send one, after begin() at one rate; begin() alone at all others.
\* Transfers of the lengths at which the loops of the SPI drivers differ, any number of
\* them; a byte out and one in over pins, again and again.  Registers of a card with their
\* fields at their limits and between, and up to three bytes.
SPECIFICATION SpecParts
CONSTANTS
    MaxReceived = 3
    MaxSent = 4
    MaxFilters = 1
    RemoteMessages = {2}
    PollBit = {2}
    TimeoutValue = 2
    StdIds = {5, 2047}
    ExtIds = {262143, 419364619, 536870911}
    Lengths = {0, 8}
    BusyRates = {250000}
    MaxCalls = 3
    SendLengths = {2, 10}
    ReceiveLengths = {1, 7, 8}
    Numbers = 2
    BytesOut = {202}
    BytesIn = {45}
    Sizes = {0, 1, 2731, 4095, 1365333, 2000000}
    Arguments = {0, 1, 128, 165, 255}
    MaxData = 3
INVARIANTS
    MessagesAreExact
    BytesAreExact
PROPERTIES
    TrafficIsServed
CHECK_DEADLOCK FALSE
