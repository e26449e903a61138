SPECIFICATION Spec
CONSTANT Stub = {s1, s2}
INVARIANTS
  ResourcesBalanced RestartCanBind
