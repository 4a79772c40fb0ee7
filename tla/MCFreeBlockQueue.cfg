CONSTANT num_gpu_blocks = 5
SPECIFICATION Spec
INVARIANT ListRepresentsOrder
