\* Responses from memory and from files, an empty file among them.
CONSTANTS
    MaxResponses = 3
    HeaderLen = 2
    FileLens = {0, 2}
SPECIFICATION FairSpec
INVARIANTS WritingIffOutput ShutdownAfterOutput DescriptorsOwned StreamIntact
PROPERTIES OutputDrains
