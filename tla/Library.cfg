SPECIFICATION FairSpec
CONSTANTS
    a = a
    b = b
    Clients = {c1, c2}
    Playlists = {p, q}
    Files = {a, b}
    FirstLists <- OneList
    Batches <- ShortOnes
    MaxVariables = 1
    Unreadable = {2}
    MaxVersion = 3
    MaxPosition = 2
    MaxEvents = 2
    Smart = Smart
    Nothing = Nothing
INVARIANTS TypeOK PositionsAreContiguous UpToDateTracksAreRead
PROPERTIES PlaylistsAreLists LibraryFollowsDisk
