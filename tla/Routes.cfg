CONSTANTS
    Projects <- MCProjects
    Paths <- MCPaths
    MaxCapture = 3
    None = None
SPECIFICATION Spec
INVARIANTS TypeOK MostSpecificPage OwnHandler PushedIsCallable CapturesBound
