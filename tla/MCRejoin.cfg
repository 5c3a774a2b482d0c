\* One client, two places in the table, and more links than places.
CONSTANTS
    Clients = {c1}
    Zero = Zero
    Links = {l1, l2, l3}
    NoLink = NoLink
    MaxConnections = 2
SPECIFICATION FairSpec
CHECK_DEADLOCK FALSE
INVARIANT
    NoDeafClient
PROPERTY
    Rejoined
