SPECIFICATION Spec
CONSTANTS
    Cells = {"b", "c"}
    Docs = {1, 2}
    Size <- OneOrTwo
    Engines = {"postgres"}
    Tags = {"A", "B"}
    NoTag = "untagged"
    TagOf <- OneTag
    ModeOf <- ModesOfEach
    DimOf <- SameDim
    DocsOf <- DocOne
    ForceOverwrite = {}
    Recorders = {"b", "c"}
    Pipelines = {}
    PrunesOf <- DocOne
    DeleteOrphans = TRUE
    Alike = {}
    Overlap = FALSE
INVARIANT
    LastWriteStands
