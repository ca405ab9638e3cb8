SPECIFICATION Spec
CONSTANTS
    Widths <- FrameWidths
    Sizes <- PhotoSizes
    TopInset = 16
    Spacing = 16
    Margin = 16
    MinWidth = 150
    PagingHeight = 44
    MaxItems = 5
INVARIANTS
    PhotosFit
    FramesInReadingOrder
    ExtraElementsLieAbove
    ItemsHaveAttributes
CHECK_DEADLOCK FALSE
