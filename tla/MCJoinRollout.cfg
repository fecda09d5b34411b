CONSTANT MaxEvents <- MCMaxEvents
SPECIFICATION Spec
INVARIANTS TypeOK ReadinessObserved TimeoutMeansNeverReady Released PhaseCurrent
PROPERTY Terminates
