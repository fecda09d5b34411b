CONSTANT MaxEvents <- MCMaxEvents
SPECIFICATION Spec
PROPERTY ConditionWaitRefined
