SPECIFICATION FairSpec
CONSTANTS
    Cells = {"a", "b", "c"}
    Docs = {1, 2}
    Size <- OneOrTwo
    Engines = {"postgres", "mariadb"}
    Tags = {"A", "B"}
    NoTag = "untagged"
    TagOf <- TagsByDoc
    ModeOf <- ModesOfEach
    DimOf <- SameDim
    DocsOf <- DocsByTag
    ForceOverwrite = {}
    Recorders = {"a", "b", "c"}
    Pipelines = {}
    PrunesOf <- SecondDoc
    DeleteOrphans = TRUE
    Alike = {}
    Overlap = TRUE
INVARIANTS
    LastWriteStands
    RecordsAgree
PROPERTIES
    EveryRunEnds
