SPECIFICATION Spec
CONSTANT List = {l1}
INVARIANT LastCopyKept
