SPECIFICATION Spec
CONSTANT QueueSize = 3
INVARIANT ListensIfConnected
PROPERTY LateAtWorst
