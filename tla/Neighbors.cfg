SPECIFICATION ScreensSpec
CONSTANTS
    GlyphsPerPage = 3
    LineSize = 12
    NameSize = 6
    DescriptionSize = 12
    PlatformShare = 3
    SoftwareShare = 5
    MaxEntries = 3
    Receipts <- MCReceipts
INVARIANTS
    RecordsAreAdvertised
    PagesShowAdvert
