CONSTANTS
    d1 = d1
    c1 = c1
    r1 = r1
    Docs = {d1}
    MaxEdits = 1
    MaxCalls = 1
    ServerCalls = {c1}
    NewRoots = {r1}
    NotOpen = NotOpen
    Garbled = Garbled
SPECIFICATION Spec
INVARIANTS ServerMirrorsOpenDocuments RequestsKeepTheirOrder NoCallIsForgotten ShutdownAnswersTheServer
CONSTRAINT RootsOrEdits
