SPECIFICATION RoutingSpec
CONSTANTS
  Firms = {o1}
  Nobody = Nobody
  OnboardingSteps <- MCSteps
INVARIANTS
  PaidCheckoutEnters
