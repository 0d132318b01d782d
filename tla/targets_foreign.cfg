SPECIFICATION Spec
CONSTANTS
    Cells = {"a", "b", "c"}
    Docs = {1, 2}
    Size <- OneOrTwo
    Engines = {"postgres"}
    Tags = {"A", "B"}
    NoTag = "untagged"
    TagOf <- TagsByDoc
    ModeOf <- ModesOfEach
    DimOf <- SameDim
    DocsOf <- DocsByTag
    ForceOverwrite = {}
    Recorders = {"a", "b", "c"}
    Pipelines = {}
    PrunesOf <- DocsByTag
    DeleteOrphans = TRUE
    Alike = {}
    Overlap = TRUE
PROPERTY
    ForeignRowsSurvive
